---- MODULE Spec2Model ----
(***************************************************************************)
(* SmartAccountManager, FundingUtils and GasUtils of the viem ERC-4337     *)
(* boilerplate, as a state machine.                                        *)
(*                                                                         *)
(* Every `await` of the JavaScript source is one step of a task: the       *)
(* network call it awaits is answered (or fails) and the synchronous code  *)
(* up to the next `await` runs.  Several tasks may be in flight on one     *)
(* manager, as several un-awaited promises would be.                       *)
(*                                                                         *)
(* Amounts of ether are counted in units of 1/UnitsPerMilliEther of        *)
(* 0.001 ETH and fees in units of 1/UnitsPerGwei gwei, so that the wei     *)
(* values of the source (up to 10^16) stay inside TLC's integers; every    *)
(* division the source performs is exact in both scales.                   *)
(* An absent (undefined / null) value is the empty tuple <<>>, a present   *)
(* value v is <<v>>.                                                       *)
(***************************************************************************)
EXTENDS Integers, Sequences, FiniteSets, TLC

(* ------------------------------ bounds -------------------------------- *)
UnitsPerMilliEther == 2
MaxEoaBalance == 7
MaxAccountBalance == 5
MaxMinBalance == 4
MaxHashes == 2
MaxGasBumpGwei == 2
MaxGasPriceGwei == 2
MaxBaseFeeGwei == 2

(* ------------------------- units and constants ------------------------ *)
UnitsPerGwei == 100

parseEther(milli) == milli * UnitsPerMilliEther

parseGwei(gwei) == gwei * UnitsPerGwei

DefaultMinBalanceMilli == 10
FundingBufferMilli == 1
DefaultSelfAmountMilli == 1

DefaultGasBumpGwei == 3
DefaultPriorityBumpPercent == 20
DefaultTimeout == 30000
FundingGasBumpGwei == 1
FundingPriorityBumpPercent == 20
FundingTimeout == 60000

FallbackGasLimit == 21000
FallbackMaxFeeGwei == 10
FallbackPriorityFeeGwei == 2
SuggestedPriorityFeeGwei == 1

FallbackCallGasLimit == 100000
FallbackVerificationGasLimit == 100000
FallbackPreVerificationGas == 21000

NotInitializedMessage == "Account not initialized. Call initialize() first."
InsufficientMessage == "Insufficient EOA balance to fund smart account. Need at least"

Absent == <<>>
Some(v) == <<v>>
IsAbsent(o) == o = <<>>
Get(o) == o[1]

(* options.x || d : a falsy x (undefined, or the BigInt 0n) gives d *)
OrDefault(o, d) == IF IsAbsent(o) \/ Get(o) = 0 THEN d ELSE Get(o)

(* const { x = d } = options : only an undefined x gives d *)
Destructure(o, d) == IF IsAbsent(o) THEN d ELSE Get(o)

(* ----------------------- external collaborators ----------------------- *)
privateKeyToAccount(key) == <<"eoa", key>>

SoladySalt == "0x0"
toSoladySmartAccount(owner, salt) == <<"account", "solady", owner, salt>>

CoinbaseVersion == "1.1"
toCoinbaseSmartAccount(owner, version) == <<"account", "coinbase", owner, version>>

(* ------------------------------- state -------------------------------- *)
VARIABLES
    options,      \* options[m]: the argument of `new SmartAccountManager(options)`
    manager,      \* manager[m]: the fields of the manager object
    initialized,  \* initialized[m]: initialize() has completed successfully on m
    network,      \* what the node answers to fee and gas queries
    balance,      \* balance[a]: the on-chain balance of address a
    pending,      \* transfers and user operations submitted and not yet included
    mined,        \* hashes of the submissions that were included
    hashes,       \* number of hashes handed out so far
    task          \* task[t]: one asynchronous call in flight (its frame)

vars == <<options, manager, initialized, network, balance, pending, mined, hashes, task>>

Keys == {"key1", "key2"}
Salts == {"0x0", "0x123"}
Implementations == {"solady", "coinbase"}
Recipient == <<"eoa", "recipient">>
BundlerClient == <<"bundlerClient">>

(* the constructor: lines 11-36 (Solady) and 178-203 (Coinbase) *)
SmartAccountManager(opts) ==
    [ implementation |-> opts.implementation,
      privateKey     |-> opts.privateKey,
      minBalance     |-> OrDefault(opts.minBalance, parseEther(DefaultMinBalanceMilli)),
      owner          |-> privateKeyToAccount(opts.privateKey),
      account        |-> Absent,
      bundlerClient  |-> Absent ]

(* a derivation that also depends on the manager's funding threshold *)
deriveAccount_byThreshold(mg) ==
    IF mg.implementation = "solady"
    THEN toSoladySmartAccount(mg.owner, mg.minBalance)
    ELSE toCoinbaseSmartAccount(mg.owner, mg.minBalance)

(* the account initialize() derives for a manager *)
deriveAccount(mg) ==
    IF mg.implementation = "solady"
    THEN toSoladySmartAccount(mg.owner, SoladySalt)
    ELSE toCoinbaseSmartAccount(mg.owner, CoinbaseVersion)

(* ------------------------------- tasks -------------------------------- *)
(* the position of main(): the number of the call it awaits, the outcomes of
   the calls it has awaited, what it has written to the error output and the
   status it has exited with *)
NoMain == [step |-> 0, log |-> <<>>, stderr |-> <<>>, exit |-> Absent]

IdleTask ==
    [ method |-> "idle", pc |-> "idle", mgr |-> 0,
      calls |-> <<>>,                 \* sendUserOperation(calls)
      target |-> Absent, minBal |-> 0, \* FundingUtils.ensureFunding(target, minBal)
      eoaBalance |-> Absent, smartAccountBalance |-> Absent,
      currentBalance |-> Absent, fundingAmount |-> Absent, newBalance |-> Absent,
      request |-> Absent, opts |-> Absent,
      gasPrice |-> Absent, maxFeePerGas |-> Absent, bumpedPriorityFee |-> Absent,
      gasParams |-> Absent,
      estimated |-> Absent,           \* the request handed to client.estimateGas
      estimationFailed |-> FALSE,     \* a step inside the try block has thrown
      hash |-> 0, receipt |-> Absent,
      waited |-> Absent,              \* the argument of client.waitForTransactionReceipt
      funding |-> "none",             \* what ensureFunding returned: "null" or "receipt"
      userOpEstimation |-> "none",    \* estimateUserOperationGas: "ok" or "failed"
      userOpRequest |-> Absent,
      net |-> <<>>,                   \* the network calls this call has made, in order
      sent |-> <<>>,                  \* what this call has submitted, in order
      warnings |-> 0,                 \* console.warn lines of this call
      wasInitialized |-> FALSE,       \* initialized[mgr] when the call was made
      spent |-> FALSE,                \* the target was spent from during the call
      main |-> NoMain,                \* the run of main() this call belongs to, if any
      result |-> Absent ]

Finish(r, res) == [r EXCEPT !.pc = "done", !.result = Some(res)]
Throw(r, err) == Finish(r, [kind |-> "throw", error |-> err])
Return(r, val) == Finish(r, [kind |-> "return", value |-> val])

NotInitializedError == [message |-> NotInitializedMessage]
(* the error naming the threshold without the buffer *)
InsufficientError_noBuffer(min) == [message |-> InsufficientMessage, needed |-> min]

InsufficientError(min) ==
    [message |-> InsufficientMessage, needed |-> min + parseEther(FundingBufferMilli)]
TransportError(call) == [message |-> "transport", call |-> call]

Net(r, call) == [r EXCEPT !.net = Append(@, call)]
Count(r, call) == Cardinality({i \in 1 .. Len(r.net) : r.net[i] = call})
LastCall(r) == IF r.net = <<>> THEN "none" ELSE r.net[Len(r.net)]

Others(t) == [u \in DOMAIN task \ {t} |-> task[u]]
SetTask(t, r) == task' = [task EXCEPT ![t] = r]

ChainUnchanged == UNCHANGED <<network, balance, pending, mined, hashes>>
ManagerUnchanged == UNCHANGED <<options, manager, initialized>>

(* viem's isAddress: what client.getBalance accepts as an address *)
isAddress(address) == address[1] \in {"eoa", "account"}

(* the balance the node holds for an address: 0 for one it has never seen *)
getBalance(address) == IF address \in DOMAIN balance THEN balance[address] ELSE 0

(* funding.js lines 11-14: the value client.getBalance({ address }) resolves to *)
checkBalance(address) == getBalance(address)

InvalidAddressError == [message |-> "invalid address", call |-> "getBalance"]

(* ------------------------------ GasUtils ------------------------------ *)
(* the bump alone, without the suggested fee it is added to *)
bumpedPriorityFee_bumpOnly(priorityBumpPercent) ==
    (parseGwei(SuggestedPriorityFeeGwei) * priorityBumpPercent) \div 100

(* the suggested fee returned whatever percentage is asked for *)
bumpedPriorityFee_unbumped(priorityBumpPercent) == parseGwei(SuggestedPriorityFeeGwei)

(* part_003 lines 27-28 *)
bumpedPriorityFee(priorityBumpPercent) ==
    parseGwei(SuggestedPriorityFeeGwei)
        + (parseGwei(SuggestedPriorityFeeGwei) * priorityBumpPercent) \div 100

(* the requested bump left out of the cap *)
maxFeePerGas_noBump(baseFeePerGas, priorityFee, gasBumpGwei) == baseFeePerGas + priorityFee

(* the priority fee left out of the cap *)
maxFeePerGas_noPriority(baseFeePerGas, priorityFee, gasBumpGwei) ==
    baseFeePerGas + parseGwei(gasBumpGwei)

(* part_003 line 31 *)
maxFeePerGas(baseFeePerGas, priorityFee, gasBumpGwei) ==
    baseFeePerGas + priorityFee + parseGwei(gasBumpGwei)

(* the fallback with its two fee fields swapped *)
fallbackGasParams_swapped(timeout) ==
    [ gasLimit |-> FallbackGasLimit,
      maxFeePerGas |-> parseGwei(FallbackPriorityFeeGwei),
      maxPriorityFeePerGas |-> parseGwei(FallbackMaxFeeGwei),
      timeout |-> timeout ]

(* part_003 lines 50-55 *)
fallbackGasParams(timeout) ==
    [ gasLimit |-> FallbackGasLimit,
      maxFeePerGas |-> parseGwei(FallbackMaxFeeGwei),
      maxPriorityFeePerGas |-> parseGwei(FallbackPriorityFeeGwei),
      timeout |-> timeout ]

(* part_003 lines 40-45 *)
liveGasParams(gasLimit, maxFee, priorityFee, timeout) ==
    [ gasLimit |-> gasLimit,
      maxFeePerGas |-> maxFee,
      maxPriorityFeePerGas |-> priorityFee,
      timeout |-> timeout ]

(* part_003 lines 9-13: the defaults of the options *)
gasOptions(o) ==
    [ gasBumpGwei |-> Destructure(o.gasBumpGwei, DefaultGasBumpGwei),
      priorityBumpPercent |-> Destructure(o.priorityBumpPercent, DefaultPriorityBumpPercent),
      timeout |-> Destructure(o.timeout, DefaultTimeout) ]

(* funding.js lines 32-36 *)
fundingOptions ==
    [ gasBumpGwei |-> Some(FundingGasBumpGwei),
      priorityBumpPercent |-> Some(FundingPriorityBumpPercent),
      timeout |-> Some(FundingTimeout) ]

(* estimateGasWithBump is entered: the options are read and getGasPrice is awaited *)
estimateGasWithBump_call(r, request, o) ==
    [r EXCEPT !.request = request, !.opts = Some(gasOptions(o)),
              !.pc = "estimateGasWithBump_getGasPrice"]

(* estimateGasWithBump returns gasParams to whoever called it *)
estimateGasWithBump_return(r, gasParams) ==
    IF r.method = "estimateGasWithBump"
    THEN Return([r EXCEPT !.gasParams = Some(gasParams)], gasParams)
    ELSE [r EXCEPT !.gasParams = Some(gasParams), !.pc = "sendTransactionWithBump_sendTransaction"]

(* a failed estimation handed to the caller as an error *)
estimateGasWithBump_catch_rethrow(r) == Throw(r, TransportError(LastCall(r)))

(* the fallback returned without a word *)
estimateGasWithBump_catch_silent(r) ==
    estimateGasWithBump_return(r, fallbackGasParams(Get(r.opts).timeout))

(* part_003 lines 46-56: the catch block *)
estimateGasWithBump_catch(r) ==
    estimateGasWithBump_return([r EXCEPT !.warnings = @ + 1],
                               fallbackGasParams(Get(r.opts).timeout))

(* part_003 lines 34-38: { ...transactionRequest, maxFeePerGas, maxPriorityFeePerGas };
   spreading a null request adds no field *)
estimateGasRequest(request, maxFee, priorityFee) ==
    [ request |-> request, maxFeePerGas |-> maxFee, maxPriorityFeePerGas |-> priorityFee ]

(* part_003 line 17 *)
estimateGasWithBump_getGasPrice(t) ==
    /\ task[t].pc = "estimateGasWithBump_getGasPrice"
    /\ \E ok \in BOOLEAN :
         LET r == Net(task[t], "getGasPrice") IN
         SetTask(t, IF ok
                    THEN [r EXCEPT !.gasPrice = Some(network.gasPrice),
                                   !.pc = "estimateGasWithBump_getBlock"]
                    ELSE estimateGasWithBump_catch([r EXCEPT !.estimationFailed = TRUE]))
    /\ ChainUnchanged /\ ManagerUnchanged

(* the priority fee taken from the gas price the node reported *)
estimateGasWithBump_getBlock_fromGasPrice(t) ==
    /\ task[t].pc = "estimateGasWithBump_getBlock"
    /\ \E ok \in BOOLEAN :
         LET r == Net(task[t], "getBlock")
             o == Get(r.opts)
             suggested == Get(r.gasPrice)
             priority == suggested + (suggested * o.priorityBumpPercent) \div 100
             fee == maxFeePerGas(Get(network.baseFeePerGas), priority, o.gasBumpGwei)
         IN
         SetTask(t, IF ok /\ ~IsAbsent(network.baseFeePerGas)
                    THEN [r EXCEPT !.bumpedPriorityFee = Some(priority),
                                   !.maxFeePerGas = Some(fee),
                                   !.estimated =
                                       Some(estimateGasRequest(r.request, fee, priority)),
                                   !.pc = "estimateGasWithBump_estimateGas"]
                    ELSE estimateGasWithBump_catch([r EXCEPT !.estimationFailed = TRUE]))
    /\ ChainUnchanged /\ ManagerUnchanged

(* part_003 lines 20-38: the block is read, the fees are computed, estimateGas is awaited *)
estimateGasWithBump_getBlock(t) ==
    /\ task[t].pc = "estimateGasWithBump_getBlock"
    /\ \E ok \in BOOLEAN :
         LET r == Net(task[t], "getBlock")
             o == Get(r.opts)
             priority == bumpedPriorityFee(o.priorityBumpPercent)
             fee == maxFeePerGas(Get(network.baseFeePerGas), priority, o.gasBumpGwei)
         IN
         SetTask(t, IF ok /\ ~IsAbsent(network.baseFeePerGas)
                    THEN [r EXCEPT !.bumpedPriorityFee = Some(priority),
                                   !.maxFeePerGas = Some(fee),
                                   !.estimated =
                                       Some(estimateGasRequest(r.request, fee, priority)),
                                   !.pc = "estimateGasWithBump_estimateGas"]
                    ELSE estimateGasWithBump_catch([r EXCEPT !.estimationFailed = TRUE]))
    /\ ChainUnchanged /\ ManagerUnchanged

(* part_003 lines 34-45 *)
estimateGasWithBump_estimateGas(t) ==
    /\ task[t].pc = "estimateGasWithBump_estimateGas"
    /\ \E ok \in BOOLEAN :
         LET r == Net(task[t], "estimateGas") IN
         SetTask(t, IF ok
                    THEN estimateGasWithBump_return(r,
                             liveGasParams(network.gasLimit, Get(r.maxFeePerGas),
                                           Get(r.bumpedPriorityFee), Get(r.opts).timeout))
                    ELSE estimateGasWithBump_catch([r EXCEPT !.estimationFailed = TRUE]))
    /\ ChainUnchanged /\ ManagerUnchanged

(* --------------------------- the chain -------------------------------- *)
Transfer(bal, from, to, value) ==
    [a \in DOMAIN bal |->
        bal[a] - (IF a = from THEN value ELSE 0) + (IF a = to THEN value ELSE 0)]

RECURSIVE Execute(_, _, _)
(* the calls of an operation, in order; the operation reverts as a whole
   when the sender cannot pay one of them *)
Execute(bal, from, calls) ==
    IF calls = <<>> THEN bal
    ELSE IF bal[from] < Head(calls).value THEN bal
    ELSE Execute(Transfer(bal, from, Head(calls).to, Head(calls).value), from, Tail(calls))

RECURSIVE Payable(_, _, _)
Payable(bal, from, calls) ==
    IF calls = <<>> THEN TRUE
    ELSE /\ bal[from] >= Head(calls).value
         /\ Payable(Transfer(bal, from, Head(calls).to, Head(calls).value), from, Tail(calls))

Submission(hash, kind, from, calls) ==
    [hash |-> hash, kind |-> kind, from |-> from, calls |-> calls]

(* the steps of ensureFunding that follow its read of the target's balance *)
AfterTargetRead ==
    { "fundSmartAccount_currentBalance", "estimateGasWithBump_getGasPrice",
      "estimateGasWithBump_getBlock", "estimateGasWithBump_estimateGas",
      "sendTransactionWithBump_sendTransaction", "sendTransactionWithBump_waitForReceipt",
      "fundSmartAccount_newBalance" }

(* tasks inside a funding check of `address` see that it was spent from *)
MarkSpent(address) ==
    [u \in DOMAIN task |->
        IF task[u].target = address /\ task[u].pc \in AfterTargetRead
        THEN [task[u] EXCEPT !.spent = TRUE] ELSE task[u]]

(* the node includes a pending transfer or user operation *)
include(p) ==
    /\ p \in pending
    /\ p.kind = "transaction" => Payable(balance, p.from, p.calls)
    /\ LET after == IF Payable(balance, p.from, p.calls)
                     THEN Execute(balance, p.from, p.calls) ELSE balance
       IN /\ balance' = after
          /\ task' = IF after[p.from] < balance[p.from] THEN MarkSpent(p.from) ELSE task
    /\ pending' = pending \ {p}
    /\ mined' = mined \cup {p.hash}
    /\ UNCHANGED <<network, hashes>>
    /\ ManagerUnchanged

(* ----------------- GasUtils.sendTransactionWithBump ------------------- *)
(* a submission that keeps only the recipient and the value of the request *)
transactionToSend_withoutData(request, gasParams) ==
    [ to |-> request.to, value |-> request.value,
      gas |-> gasParams.gasLimit,
      maxFeePerGas |-> gasParams.maxFeePerGas,
      maxPriorityFeePerGas |-> gasParams.maxPriorityFeePerGas ]

(* part_003 lines 66-71: the object handed to walletClient.sendTransaction,
   { ...transactionRequest, gas, maxFeePerGas, maxPriorityFeePerGas }: every
   field of the request, under the three fields of the schedule *)
transactionToSend(request, gasParams) ==
    [ gas |-> gasParams.gasLimit,
      maxFeePerGas |-> gasParams.maxFeePerGas,
      maxPriorityFeePerGas |-> gasParams.maxPriorityFeePerGas ] @@ request

(* sendTransactionWithBump returns {hash, receipt} to whoever called it *)
sendTransactionWithBump_return(r) ==
    IF r.method = "sendTransactionWithBump"
    THEN Return(r, [hash |-> r.hash, receipt |-> Get(r.receipt)])
    ELSE [r EXCEPT !.pc = "fundSmartAccount_newBalance"]

(* the submission tried again after a failure *)
sendTransaction_rejected_retry(r) ==
    IF Len(r.sent) < 2
    THEN [r EXCEPT !.pc = "sendTransactionWithBump_sendTransaction"]
    ELSE Throw(r, TransportError("sendTransaction"))

(* part_003 line 66: the await is in no try block, so the rejection of
   walletClient.sendTransaction rejects sendTransactionWithBump and, through
   the awaits of funding.js lines 26 and 65 and SmartAccountManager.js lines
   97 and 106, every caller above it *)
sendTransaction_rejected(r) == Throw(r, TransportError("sendTransaction"))

(* part_003 lines 66-71 *)
sendTransactionWithBump_sendTransaction(t) ==
    /\ task[t].pc = "sendTransactionWithBump_sendTransaction"
    /\ \E ok \in BOOLEAN :
         LET r == Net(task[t], "sendTransaction")
             tx == transactionToSend(Get(r.request), Get(r.gasParams))
             s == [r EXCEPT !.sent = Append(@, tx)]
         IN
         IF ok
         THEN /\ hashes < MaxHashes
              /\ hashes' = hashes + 1
              /\ pending' = pending \cup
                     {Submission(hashes + 1, "transaction", manager[r.mgr].owner,
                                 <<[to |-> tx.to, value |-> tx.value]>>)}
              /\ SetTask(t, [s EXCEPT !.hash = hashes + 1,
                                      !.pc = "sendTransactionWithBump_waitForReceipt"])
         ELSE /\ SetTask(t, sendTransaction_rejected(s))
              /\ UNCHANGED <<hashes, pending>>
    /\ UNCHANGED <<network, balance, mined>>
    /\ ManagerUnchanged

(* a wait that ignores the schedule's timeout *)
waitForTransactionReceiptArgs_defaultTimeout(r) ==
    [hash |-> r.hash, timeout |-> DefaultTimeout]

(* part_003 lines 76-79: the argument of client.waitForTransactionReceipt *)
waitForTransactionReceiptArgs(r) ==
    [hash |-> r.hash, timeout |-> Get(r.gasParams).timeout]

(* a wait that withdraws the transfer when it gives up *)
sendTransactionWithBump_waitForReceipt_cancelling(t) ==
    /\ task[t].pc = "sendTransactionWithBump_waitForReceipt"
    /\ \E ok \in BOOLEAN :
         LET r == [Net(task[t], "waitForTransactionReceipt") EXCEPT
                      !.waited = Some(waitForTransactionReceiptArgs(task[t]))]
         IN
         IF ok
         THEN /\ r.hash \in mined
              /\ SetTask(t, sendTransactionWithBump_return(
                                [r EXCEPT !.receipt = Some([transactionHash |-> r.hash])]))
              /\ UNCHANGED pending
         ELSE /\ SetTask(t, Throw(r, TransportError("waitForTransactionReceipt")))
              /\ pending' = {p \in pending : p.hash # r.hash}
    /\ UNCHANGED <<network, balance, mined, hashes>>
    /\ ManagerUnchanged

(* part_003 lines 76-81: the receipt arrives, or the wait fails or times out *)
sendTransactionWithBump_waitForReceipt(t) ==
    /\ task[t].pc = "sendTransactionWithBump_waitForReceipt"
    /\ \E ok \in BOOLEAN :
         LET r == [Net(task[t], "waitForTransactionReceipt") EXCEPT
                      !.waited = Some(waitForTransactionReceiptArgs(task[t]))]
         IN
         IF ok
         THEN /\ r.hash \in mined
              /\ SetTask(t, sendTransactionWithBump_return(
                                [r EXCEPT !.receipt = Some([transactionHash |-> r.hash])]))
         ELSE SetTask(t, Throw(r, TransportError("waitForTransactionReceipt")))
    /\ ChainUnchanged /\ ManagerUnchanged

(* ---------------------------- FundingUtils ---------------------------- *)
(* a balance equal to the threshold counted as too low *)
needsFunding_inclusive(currentBalance, minBalance) == currentBalance <= minBalance

(* funding.js lines 21 and 58 *)
needsFunding(currentBalance, minBalance) == currentBalance < minBalance

(* the transfer without the extra for gas *)
fundingAmount_noBuffer(currentBalance, minBalance) == minBalance - currentBalance

(* the extra for gas subtracted instead of added *)
fundingAmount_minusBuffer(currentBalance, minBalance) ==
    minBalance - currentBalance - parseEther(FundingBufferMilli)

(* funding.js line 22 *)
fundingAmount(currentBalance, minBalance) ==
    minBalance - currentBalance + parseEther(FundingBufferMilli)

(* the owner's balance compared with the threshold alone *)
insufficientEoa_noBuffer(eoaBalance, minBalance) == eoaBalance < minBalance

(* funding.js line 59 *)
insufficientEoa(eoaBalance, minBalance) ==
    eoaBalance < minBalance + parseEther(FundingBufferMilli)

ManagerMethods ==
    { "initialize", "getBalances", "displayBalances", "ensureFunding",
      "sendUserOperation", "sendSelfTransaction", "transferTo" }
SubmitMethods == {"sendUserOperation", "sendSelfTransaction", "transferTo"}

FundingOutcome(value) == IF IsAbsent(value) THEN "null" ELSE "receipt"

(* FundingUtils.ensureFunding returns `value` (null or a receipt) to whoever
   called it: SmartAccountManager.ensureFunding hands it on, and
   sendUserOperation goes on to the bundler (SmartAccountManager.js lines
   106-118 and 272-275) *)
ensureFunding_return(r, value) ==
    IF r.method \in SubmitMethods
    THEN [r EXCEPT !.funding = FundingOutcome(value),
                   !.userOpRequest =
                       Some([account |-> manager[r.mgr].account, calls |-> r.calls,
                             limits |-> Absent]),
                   !.pc = IF manager[r.mgr].implementation = "solady"
                          THEN "sendUserOperation_estimateUserOperationGas"
                          ELSE "sendUserOperation_sendUserOperation"]
    ELSE Return([r EXCEPT !.funding = FundingOutcome(value)], value)

(* fundSmartAccount forgetting to hand the receipt back *)
fundSmartAccount_return_null(r, value) ==
    IF r.method = "fundSmartAccount" THEN Return(r, Absent) ELSE ensureFunding_return(r, Absent)

(* fundSmartAccount returns to whoever called it *)
fundSmartAccount_return(r, value) ==
    IF r.method = "fundSmartAccount" THEN Return(r, value) ELSE ensureFunding_return(r, value)

(* fundSmartAccount is entered: the balance read of line 17 is awaited *)
fundSmartAccount_call(r, address, minBalance) ==
    [r EXCEPT !.target = address, !.minBal = minBalance,
              !.pc = "fundSmartAccount_currentBalance"]

(* FundingUtils.ensureFunding is entered: the read of line 52 is awaited *)
ensureFunding_call(r, address, minBalance) ==
    [r EXCEPT !.target = address, !.minBal = minBalance, !.pc = "ensureFunding_eoaBalance"]

(* funding.js line 52 *)
ensureFunding_eoaBalance(t) ==
    /\ task[t].pc = "ensureFunding_eoaBalance"
    /\ \E ok \in BOOLEAN :
         LET r == Net(task[t], "getBalance") IN
         SetTask(t, IF ok
                    THEN [r EXCEPT !.eoaBalance = Some(checkBalance(manager[r.mgr].owner)),
                                   !.pc = "ensureFunding_smartAccountBalance"]
                    ELSE Throw(r, TransportError("getBalance")))
    /\ ChainUnchanged /\ ManagerUnchanged

(* funding.js lines 53-68 *)
ensureFunding_smartAccountBalance(t) ==
    /\ task[t].pc = "ensureFunding_smartAccountBalance"
    /\ \E ok \in BOOLEAN :
         LET r == Net(task[t], "getBalance")
             smartAccountBalance == checkBalance(r.target)
             s == [r EXCEPT !.smartAccountBalance = Some(smartAccountBalance)]
         IN
         SetTask(t, IF ~ok THEN Throw(r, TransportError("getBalance"))
                    ELSE IF needsFunding(smartAccountBalance, r.minBal)
                    THEN IF insufficientEoa(Get(r.eoaBalance), r.minBal)
                         THEN Throw(s, InsufficientError(r.minBal))
                         ELSE fundSmartAccount_call(s, r.target, r.minBal)
                    ELSE ensureFunding_return(s, Absent))
    /\ ChainUnchanged /\ ManagerUnchanged

(* fundSmartAccount deciding and computing from the balance ensureFunding
   read, when it has one *)
fundSmartAccount_currentBalance_firstRead(t) ==
    /\ task[t].pc = "fundSmartAccount_currentBalance"
    /\ \E ok \in BOOLEAN :
         LET r == Net(task[t], "getBalance")
             currentBalance == checkBalance(r.target)
             used == IF IsAbsent(r.smartAccountBalance) THEN currentBalance
                     ELSE Get(r.smartAccountBalance)
             amount == fundingAmount(used, r.minBal)
             s == [r EXCEPT !.currentBalance = Some(currentBalance)]
         IN
         SetTask(t, IF ~ok THEN Throw(r, TransportError("getBalance"))
                    ELSE IF needsFunding(used, r.minBal)
                    THEN estimateGasWithBump_call(
                             [s EXCEPT !.fundingAmount = Some(amount)],
                             Some([to |-> r.target, value |-> amount]), fundingOptions)
                    ELSE fundSmartAccount_return(s, Absent))
    /\ ChainUnchanged /\ ManagerUnchanged

(* funding.js lines 17-37 and 45-48 *)
fundSmartAccount_currentBalance(t) ==
    /\ task[t].pc = "fundSmartAccount_currentBalance"
    /\ \E ok \in BOOLEAN :
         LET r == Net(task[t], "getBalance")
             currentBalance == checkBalance(r.target)
             amount == fundingAmount(currentBalance, r.minBal)
             s == [r EXCEPT !.currentBalance = Some(currentBalance)]
         IN
         SetTask(t, IF ~ok THEN Throw(r, TransportError("getBalance"))
                    ELSE IF needsFunding(currentBalance, r.minBal)
                    THEN estimateGasWithBump_call(
                             [s EXCEPT !.fundingAmount = Some(amount)],
                             Some([to |-> r.target, value |-> amount]), fundingOptions)
                    ELSE fundSmartAccount_return(s, Absent))
    /\ ChainUnchanged /\ ManagerUnchanged

(* funding.js lines 39-44 *)
fundSmartAccount_newBalance(t) ==
    /\ task[t].pc = "fundSmartAccount_newBalance"
    /\ \E ok \in BOOLEAN :
         LET r == Net(task[t], "getBalance") IN
         SetTask(t, IF ok
                    THEN fundSmartAccount_return(
                             [r EXCEPT !.newBalance = Some(checkBalance(r.target))], r.receipt)
                    ELSE Throw(r, TransportError("getBalance")))
    /\ ChainUnchanged /\ ManagerUnchanged

(* ------------------------- SmartAccountManager ------------------------ *)
StartCall(m, method) ==
    [IdleTask EXCEPT !.method = method, !.mgr = m, !.wasInitialized = initialized[m]]

(* SmartAccountManager.js lines 92-98 *)
manager_ensureFunding(r, mg) ==
    IF mg.account = Absent
    THEN Throw(r, NotInitializedError)
    ELSE ensureFunding_call(r, mg.account, mg.minBalance)

(* getBalances without its precondition check *)
manager_getBalances_unguarded(r, mg) == [r EXCEPT !.pc = "getBalances_eoaBalance"]

(* SmartAccountManager.js lines 57-62 *)
manager_getBalances(r, mg) ==
    IF mg.account = Absent
    THEN Throw(r, NotInitializedError)
    ELSE [r EXCEPT !.pc = "getBalances_eoaBalance"]

(* sendUserOperation going to the bundler without the funding check *)
manager_sendUserOperation_unfunded(r, mg, calls) ==
    IF mg.account = Absent \/ mg.bundlerClient = Absent
    THEN Throw(r, NotInitializedError)
    ELSE [r EXCEPT !.calls = calls,
                   !.userOpRequest =
                       Some([account |-> mg.account, calls |-> calls, limits |-> Absent]),
                   !.pc = "sendUserOperation_sendUserOperation"]

(* SmartAccountManager.js lines 100-106 *)
manager_sendUserOperation(r, mg, calls) ==
    IF mg.account = Absent \/ mg.bundlerClient = Absent
    THEN Throw(r, NotInitializedError)
    ELSE manager_ensureFunding([r EXCEPT !.calls = calls], mg)

(* initialize() clearing the account before it derives it again *)
initialize_resetting(t, m) ==
    /\ task[t].pc = "idle"
    /\ SetTask(t, [StartCall(m, "initialize") EXCEPT !.pc = "initialize_toSmartAccount"])
    /\ manager' = [manager EXCEPT ![m].account = Absent, ![m].bundlerClient = Absent]
    /\ initialized' = [initialized EXCEPT ![m] = FALSE]
    /\ UNCHANGED options
    /\ ChainUnchanged

(* SmartAccountManager.js lines 38-45: the derivation is awaited *)
initialize(t, m) ==
    /\ task[t].pc = "idle"
    /\ SetTask(t, [StartCall(m, "initialize") EXCEPT !.pc = "initialize_toSmartAccount"])
    /\ ChainUnchanged /\ ManagerUnchanged

(* initialize() creating the bundler client before it derives the account *)
initialize_toSmartAccount_bundlerFirst(t) ==
    /\ task[t].pc = "initialize_toSmartAccount"
    /\ \E ok \in BOOLEAN :
         LET r == Net(task[t], "toSmartAccount")
             m == r.mgr
             account == deriveAccount(manager[m])
         IN
         IF ok
         THEN /\ manager' = [manager EXCEPT ![m].account = account,
                                             ![m].bundlerClient = BundlerClient]
              /\ initialized' = [initialized EXCEPT ![m] = TRUE]
              /\ SetTask(t, Return(r, account))
         ELSE /\ SetTask(t, Throw(r, TransportError("toSmartAccount")))
              /\ manager' = [manager EXCEPT ![m].bundlerClient = BundlerClient]
              /\ UNCHANGED initialized
    /\ UNCHANGED options
    /\ ChainUnchanged

(* SmartAccountManager.js lines 40-54 *)
initialize_toSmartAccount(t) ==
    /\ task[t].pc = "initialize_toSmartAccount"
    /\ \E ok \in BOOLEAN :
         LET r == Net(task[t], "toSmartAccount")
             m == r.mgr
             account == deriveAccount(manager[m])
         IN
         IF ok
         THEN /\ manager' = [manager EXCEPT ![m].account = account,
                                             ![m].bundlerClient = BundlerClient]
              /\ initialized' = [initialized EXCEPT ![m] = TRUE]
              /\ SetTask(t, Return(r, account))
         ELSE /\ SetTask(t, Throw(r, TransportError("toSmartAccount")))
              /\ UNCHANGED <<manager, initialized>>
    /\ UNCHANGED options
    /\ ChainUnchanged

(* SmartAccountManager.js lines 57-77 *)
getBalances(t, m) ==
    /\ task[t].pc = "idle"
    /\ SetTask(t, manager_getBalances(StartCall(m, "getBalances"), manager[m]))
    /\ ChainUnchanged /\ ManagerUnchanged

(* SmartAccountManager.js lines 79-90 *)
displayBalances(t, m) ==
    /\ task[t].pc = "idle"
    /\ SetTask(t, manager_getBalances(StartCall(m, "displayBalances"), manager[m]))
    /\ ChainUnchanged /\ ManagerUnchanged

(* SmartAccountManager.js line 62 *)
getBalances_eoaBalance(t) ==
    /\ task[t].pc = "getBalances_eoaBalance"
    /\ \E ok \in BOOLEAN :
         LET r == Net(task[t], "getBalance") IN
         SetTask(t, IF ok
                    THEN [r EXCEPT !.eoaBalance = Some(checkBalance(manager[r.mgr].owner)),
                                   !.pc = "getBalances_smartAccountBalance"]
                    ELSE Throw(r, TransportError("getBalance")))
    /\ ChainUnchanged /\ ManagerUnchanged

UnitsPerEther == 1000 * UnitsPerMilliEther

(* formatEther: the decimal rendering, as <<whole ethers, fraction in units>> *)
formatEther(amount) == <<amount \div UnitsPerEther, amount % UnitsPerEther>>

(* the snapshot with the two balances exchanged *)
balancesSnapshot_swapped(mg, eoaBalance, smartAccountBalance) ==
    [ eoa |-> [ address |-> mg.owner, balance |-> smartAccountBalance,
                balanceFormatted |-> formatEther(smartAccountBalance) ],
      smartAccount |-> [ address |-> mg.account, balance |-> eoaBalance,
                         balanceFormatted |-> formatEther(eoaBalance) ] ]

(* SmartAccountManager.js lines 65-76 *)
balancesSnapshot(mg, eoaBalance, smartAccountBalance) ==
    [ eoa |-> [ address |-> mg.owner, balance |-> eoaBalance,
                balanceFormatted |-> formatEther(eoaBalance) ],
      smartAccount |-> [ address |-> mg.account, balance |-> smartAccountBalance,
                         balanceFormatted |-> formatEther(smartAccountBalance) ] ]

(* SmartAccountManager.js lines 63-76 *)
getBalances_smartAccountBalance(t) ==
    /\ task[t].pc = "getBalances_smartAccountBalance"
    /\ \E ok \in BOOLEAN :
         LET r == Net(task[t], "getBalance")
             mg == manager[r.mgr]
             smartAccountBalance == checkBalance(mg.account)
         IN
         SetTask(t, IF ok
                    THEN Return([r EXCEPT !.smartAccountBalance = Some(smartAccountBalance)],
                                balancesSnapshot(mg, Get(r.eoaBalance), smartAccountBalance))
                    ELSE Throw(r, TransportError("getBalance")))
    /\ ChainUnchanged /\ ManagerUnchanged

(* SmartAccountManager.js lines 92-98 *)
ensureFunding(t, m) ==
    /\ task[t].pc = "idle"
    /\ SetTask(t, manager_ensureFunding(StartCall(m, "ensureFunding"), manager[m]))
    /\ ChainUnchanged /\ ManagerUnchanged

(* SmartAccountManager.js lines 100-106 *)
sendUserOperation(t, m, calls) ==
    /\ task[t].pc = "idle"
    /\ SetTask(t, manager_sendUserOperation(StartCall(m, "sendUserOperation"),
                                            manager[m], calls))
    /\ ChainUnchanged /\ ManagerUnchanged

(* a self-transfer addressed to the smart account instead of the owner *)
sendSelfTransaction_toAccount(t, m, amount) ==
    /\ task[t].pc = "idle"
    /\ SetTask(t, manager_sendUserOperation(
                      StartCall(m, "sendSelfTransaction"), manager[m],
                      << [ to |-> manager[m].account,
                           value |-> Destructure(amount, parseEther(DefaultSelfAmountMilli)) ] >>))
    /\ ChainUnchanged /\ ManagerUnchanged

(* SmartAccountManager.js lines 145-154; amount is absent when the caller gives none *)
sendSelfTransaction(t, m, amount) ==
    /\ task[t].pc = "idle"
    /\ SetTask(t, manager_sendUserOperation(
                      StartCall(m, "sendSelfTransaction"), manager[m],
                      << [ to |-> manager[m].owner,
                           value |-> Destructure(amount, parseEther(DefaultSelfAmountMilli)) ] >>))
    /\ ChainUnchanged /\ ManagerUnchanged

(* SmartAccountManager.js lines 156-165 *)
transferTo(t, m, to, amount) ==
    /\ task[t].pc = "idle"
    /\ SetTask(t, manager_sendUserOperation(StartCall(m, "transferTo"), manager[m],
                                            << [to |-> to, value |-> amount] >>))
    /\ ChainUnchanged /\ ManagerUnchanged

fallbackUserOperationGas_swapped ==
    [ callGasLimit |-> FallbackPreVerificationGas,
      verificationGasLimit |-> FallbackVerificationGasLimit,
      preVerificationGas |-> FallbackCallGasLimit ]

(* SmartAccountManager.js lines 130-132 *)
fallbackUserOperationGas ==
    [ callGasLimit |-> FallbackCallGasLimit,
      verificationGasLimit |-> FallbackVerificationGasLimit,
      preVerificationGas |-> FallbackPreVerificationGas ]

(* SmartAccountManager.js lines 117-133 (the Solady manager only) *)
sendUserOperation_estimateUserOperationGas(t) ==
    /\ task[t].pc = "sendUserOperation_estimateUserOperationGas"
    /\ \E ok \in BOOLEAN :
         LET r == Net(task[t], "estimateUserOperationGas") IN
         SetTask(t, IF ok
                    THEN [r EXCEPT !.userOpRequest =
                                       Some([Get(@) EXCEPT !.limits = Some(network.userOpGas)]),
                                   !.userOpEstimation = "ok",
                                   !.pc = "sendUserOperation_sendUserOperation"]
                    ELSE [r EXCEPT !.userOpRequest =
                                       Some([Get(@) EXCEPT !.limits = Some(fallbackUserOperationGas)]),
                                   !.userOpEstimation = "failed",
                                   !.warnings = @ + 1,
                                   !.pc = "sendUserOperation_sendUserOperation"])
    /\ ChainUnchanged /\ ManagerUnchanged

(* the operation submitted again after a failure *)
sendUserOperation_rejected_retry(r) ==
    IF Count(r, "sendUserOperation") < 2
    THEN [r EXCEPT !.pc = "sendUserOperation_sendUserOperation"]
    ELSE Throw(r, TransportError("sendUserOperation"))

(* SmartAccountManager.js lines 135 and 275: the await is in no try block, so
   the rejection of bundlerClient.sendUserOperation rejects sendUserOperation
   and, through the awaits of lines 153 and 164, its two wrappers *)
sendUserOperation_rejected(r) == Throw(r, TransportError("sendUserOperation"))

(* SmartAccountManager.js lines 135 and 275-278 *)
sendUserOperation_sendUserOperation(t) ==
    /\ task[t].pc = "sendUserOperation_sendUserOperation"
    /\ \E ok \in BOOLEAN :
         LET r == Net(task[t], "sendUserOperation")
             op == Get(r.userOpRequest)
             s == [r EXCEPT !.sent = Append(@, op)]
         IN
         IF ok
         THEN /\ hashes < MaxHashes
              /\ hashes' = hashes + 1
              /\ pending' = pending \cup
                     {Submission(hashes + 1, "userOperation", op.account, op.calls)}
              /\ SetTask(t, [s EXCEPT !.hash = hashes + 1,
                                      !.pc = "sendUserOperation_waitForReceipt"])
         ELSE /\ SetTask(t, sendUserOperation_rejected(s))
              /\ UNCHANGED <<hashes, pending>>
    /\ UNCHANGED <<network, balance, mined>>
    /\ ManagerUnchanged

(* a wait that answers before the operation is included *)
sendUserOperation_waitForReceipt_unconfirmed(t) ==
    /\ task[t].pc = "sendUserOperation_waitForReceipt"
    /\ \E ok \in BOOLEAN :
         LET r == Net(task[t], "waitForUserOperationReceipt")
             receipt == [userOpHash |-> r.hash]
         IN
         IF ok
         THEN SetTask(t, Return([r EXCEPT !.receipt = Some(receipt)],
                                [hash |-> r.hash, receipt |-> receipt]))
         ELSE SetTask(t, Throw(r, TransportError("waitForUserOperationReceipt")))
    /\ ChainUnchanged /\ ManagerUnchanged

(* SmartAccountManager.js lines 139-142 and 282-285 *)
sendUserOperation_waitForReceipt(t) ==
    /\ task[t].pc = "sendUserOperation_waitForReceipt"
    /\ \E ok \in BOOLEAN :
         LET r == Net(task[t], "waitForUserOperationReceipt")
             receipt == [userOpHash |-> r.hash]
         IN
         IF ok
         THEN /\ r.hash \in mined
              /\ SetTask(t, Return([r EXCEPT !.receipt = Some(receipt)],
                                   [hash |-> r.hash, receipt |-> receipt]))
         ELSE SetTask(t, Throw(r, TransportError("waitForUserOperationReceipt")))
    /\ ChainUnchanged /\ ManagerUnchanged

(* the caller has its result; the slot is free for its next call *)
settle(t) ==
    /\ task[t].pc = "done"
    /\ SetTask(t, IdleTask)
    /\ ChainUnchanged /\ ManagerUnchanged

(* ------------------------------- main() -------------------------------- *)
(* part_001 lines 10, 13, 16 and 26: the calls main() awaits, in order *)
MainCalls == <<"initialize", "displayBalances", "sendSelfTransaction", "displayBalances">>

(* the k-th call of main() on its manager m, made in the run mn *)
mainCall(m, mn, k) ==
    LET r == StartCall(m, MainCalls[k])
        started ==
            IF MainCalls[k] = "initialize"
            THEN [r EXCEPT !.pc = "initialize_toSmartAccount"]
            ELSE IF MainCalls[k] = "displayBalances"
            THEN manager_getBalances(r, manager[m])
            ELSE manager_sendUserOperation(r, manager[m],
                     << [ to |-> manager[m].owner,
                          value |-> parseEther(DefaultSelfAmountMilli) ] >>)
    IN [started EXCEPT !.main = [mn EXCEPT !.step = k]]

(* a failure reported with status 0 *)
main_catch_exitZero(r) ==
    [r EXCEPT !.pc = "exited",
              !.main.log = Append(@, "failed"),
              !.main.stderr = Append(@, Get(r.result).error.message),
              !.main.exit = Some(0)]

(* part_001 lines 31-34: console.error("Error:", error.message); process.exit(1) *)
main_catch(r) ==
    [r EXCEPT !.pc = "exited",
              !.main.log = Append(@, "failed"),
              !.main.stderr = Append(@, Get(r.result).error.message),
              !.main.exit = Some(1)]

(* part_001 lines 4-10: main() builds its manager and awaits initialize() *)
main(t, m) ==
    /\ task[t].pc = "idle"
    /\ SetTask(t, mainCall(m, NoMain, 1))
    /\ ChainUnchanged /\ ManagerUnchanged

(* part_001 lines 10-34: the awaited call has settled: its rejection is
   caught, its success lets main() go on to the next call, or to exit(0) after
   the last one *)
main_await(t) ==
    /\ task[t].pc = "done"
    /\ task[t].main.step \in 1 .. Len(MainCalls)
    /\ LET r == task[t]
           mn == [r.main EXCEPT !.log = Append(@, "ok")]
       IN
       SetTask(t, IF Get(r.result).kind = "throw" THEN main_catch(r)
                  ELSE IF r.main.step < Len(MainCalls)
                  THEN mainCall(r.mgr, mn, r.main.step + 1)
                  ELSE [r EXCEPT !.pc = "exited", !.main = [mn EXCEPT !.exit = Some(0)]])
    /\ ChainUnchanged /\ ManagerUnchanged

(* ------------------ calls made on the utilities directly --------------- *)
(* funding.js line 51; minBalance is absent when the caller gives none *)
FundingUtils_ensureFunding(t, m, address, minBalance) ==
    /\ task[t].pc = "idle"
    /\ SetTask(t, ensureFunding_call(StartCall(m, "FundingUtils.ensureFunding"), address,
                                     Destructure(minBalance, parseEther(DefaultMinBalanceMilli))))
    /\ ChainUnchanged /\ ManagerUnchanged

(* funding.js line 16 *)
FundingUtils_fundSmartAccount(t, m, address, minBalance) ==
    /\ task[t].pc = "idle"
    /\ SetTask(t, fundSmartAccount_call(StartCall(m, "fundSmartAccount"), address,
                                        Destructure(minBalance, parseEther(DefaultMinBalanceMilli))))
    /\ ChainUnchanged /\ ManagerUnchanged

(* a failed read answered with a balance of 0 *)
checkBalance_rejected_asZero(r, err) == Return(r, 0)

(* funding.js line 12: the await is in no try block, so the rejection of
   client.getBalance rejects checkBalance *)
checkBalance_rejected(r, err) == Throw(r, err)

(* funding.js line 11: checkBalance called on its own *)
FundingUtils_checkBalance(t, m, address) ==
    /\ task[t].pc = "idle"
    /\ SetTask(t, [StartCall(m, "checkBalance") EXCEPT !.target = address,
                                                       !.pc = "checkBalance_getBalance"])
    /\ ChainUnchanged /\ ManagerUnchanged

(* funding.js lines 12-13: an invalid address is refused, a valid one is
   answered by the node or the read fails *)
checkBalance_getBalance(t) ==
    /\ task[t].pc = "checkBalance_getBalance"
    /\ \E ok \in BOOLEAN :
         LET r == Net(task[t], "getBalance") IN
         SetTask(t, IF ~isAddress(r.target) THEN checkBalance_rejected(r, InvalidAddressError)
                    ELSE IF ok THEN Return(r, checkBalance(r.target))
                    ELSE checkBalance_rejected(r, TransportError("getBalance")))
    /\ ChainUnchanged /\ ManagerUnchanged

(* part_003 line 8; request is absent for a null transactionRequest *)
GasUtils_estimateGasWithBump(t, m, request, o) ==
    /\ task[t].pc = "idle"
    /\ SetTask(t, estimateGasWithBump_call(StartCall(m, "estimateGasWithBump"), request, o))
    /\ ChainUnchanged /\ ManagerUnchanged

(* part_003 line 59 *)
GasUtils_sendTransactionWithBump(t, m, request, o) ==
    /\ task[t].pc = "idle"
    /\ SetTask(t, estimateGasWithBump_call(StartCall(m, "sendTransactionWithBump"), request, o))
    /\ ChainUnchanged /\ ManagerUnchanged

(* ------------------------- the specifications ------------------------- *)
Tasks == DOMAIN task
Managers == DOMAIN manager

Amounts == {0, 1}
CallInputs == {<<>>} \cup {<< [to |-> Recipient, value |-> v] >> : v \in Amounts}
AmountInputs == {Absent} \cup {Some(v) : v \in Amounts}

GasSteps(t) ==
    \/ estimateGasWithBump_getGasPrice(t)
    \/ estimateGasWithBump_getBlock(t)
    \/ estimateGasWithBump_estimateGas(t)
    \/ sendTransactionWithBump_sendTransaction(t)
    \/ sendTransactionWithBump_waitForReceipt(t)
    \/ settle(t)

FundingSteps(t) ==
    \/ ensureFunding_eoaBalance(t)
    \/ ensureFunding_smartAccountBalance(t)
    \/ fundSmartAccount_currentBalance(t)
    \/ fundSmartAccount_newBalance(t)

ManagerSteps(t) ==
    \/ initialize_toSmartAccount(t)
    \/ getBalances_eoaBalance(t)
    \/ getBalances_smartAccountBalance(t)
    \/ sendUserOperation_estimateUserOperationGas(t)
    \/ sendUserOperation_sendUserOperation(t)
    \/ sendUserOperation_waitForReceipt(t)

Call(t, m) ==
    \/ initialize(t, m)
    \/ getBalances(t, m)
    \/ displayBalances(t, m)
    \/ ensureFunding(t, m)
    \/ \E calls \in CallInputs : sendUserOperation(t, m, calls)
    \/ \E amount \in AmountInputs : sendSelfTransaction(t, m, amount)
    \/ \E amount \in Amounts : transferTo(t, m, Recipient, amount)

Included == \E p \in pending : include(p)

(* the manager's methods, called by a program that awaits each call *)
Next ==
    \/ \E t \in Tasks : \E m \in Managers : Call(t, m)
    \/ \E t \in Tasks : ManagerSteps(t) \/ FundingSteps(t) \/ GasSteps(t)
    \/ Included

OptionsOf(implementations, keys, minBalances, salts) ==
    [ implementation : implementations, privateKey : keys,
      minBalance : minBalances, salt : salts ]

Addresses(opts) ==
    {Recipient}
        \cup {SmartAccountManager(opts[m]).owner : m \in DOMAIN opts}
        \cup {deriveAccount(SmartAccountManager(opts[m])) : m \in DOMAIN opts}

(* the node's estimate for a transfer: above the 21000 of the fallback
   (SmartAccount.integration.test.js lines 82 and 125-126) *)
EstimatedGasLimit == 21001

Network(gasPrice, baseFeePerGas) ==
    [ gasPrice |-> gasPrice, baseFeePerGas |-> baseFeePerGas,
      gasLimit |-> EstimatedGasLimit,
      userOpGas |-> [ callGasLimit |-> 50000, verificationGasLimit |-> 60000,
                      preVerificationGas |-> 45000 ] ]

CalmNetwork == Network(parseGwei(2), Some(parseGwei(1)))

(* the state after `new SmartAccountManager(options)` for every manager, on a
   chain where each owner holds eoa and each (undeployed) account holds acct *)
InitWith(taskIds, managerIds, optionSet, eoaBalances, accountBalances, networks) ==
    /\ options \in [managerIds -> optionSet]
    /\ manager = [m \in managerIds |-> SmartAccountManager(options[m])]
    /\ initialized = [m \in managerIds |-> FALSE]
    /\ network \in networks
    /\ \E eoa \in eoaBalances, acct \in accountBalances :
          balance = [a \in Addresses(options) |->
                        IF a = Recipient THEN 0
                        ELSE IF a[1] = "eoa" THEN eoa ELSE acct]
    /\ pending = {}
    /\ mined = {}
    /\ hashes = 0
    /\ task = [t \in taskIds |-> IdleTask]

FundedEoa == parseEther(DefaultMinBalanceMilli) + 2 * parseEther(FundingBufferMilli)

Init ==
    InitWith({1}, {1},
             OptionsOf(Implementations, {"key1"}, {Absent, Some(MaxMinBalance)}, {Absent}),
             {MaxMinBalance + parseEther(FundingBufferMilli) - 1,
              MaxMinBalance + parseEther(FundingBufferMilli),
              FundedEoa},
             {0, MaxMinBalance},
             {CalmNetwork})

Spec == Init /\ [][Next]_vars

(* FundingUtils called directly, over a grid of balances and thresholds *)
MinBalanceInputs == {Absent} \cup {Some(v) : v \in 0 .. MaxMinBalance}

NextFunding ==
    \/ \E t \in Tasks, m \in Managers, min \in MinBalanceInputs :
          \/ FundingUtils_ensureFunding(t, m, deriveAccount(manager[m]), min)
          \/ FundingUtils_fundSmartAccount(t, m, deriveAccount(manager[m]), min)
    \/ \E t \in Tasks : FundingSteps(t) \/ GasSteps(t)
    \/ Included

InitFunding ==
    InitWith({1}, {1},
             OptionsOf({"solady"}, {"key1"}, {Absent}, {Absent}),
             (0 .. MaxEoaBalance) \cup {FundedEoa},
             0 .. MaxAccountBalance,
             {CalmNetwork})

SpecFunding == InitFunding /\ [][NextFunding]_vars

(* GasUtils called directly, over a grid of options and network answers *)
BumpInputs == {Absent} \cup {Some(v) : v \in 0 .. MaxGasBumpGwei}
PercentInputs == {Absent, Some(0), Some(25), Some(50)}
TimeoutInputs == {Absent, Some(FundingTimeout)}
GasOptionInputs ==
    [gasBumpGwei : BumpInputs, priorityBumpPercent : PercentInputs, timeout : TimeoutInputs]
TransferInputs == {Some([to |-> Recipient, value |-> v]) : v \in Amounts}

EstimateSteps(t) ==
    \/ estimateGasWithBump_getGasPrice(t)
    \/ estimateGasWithBump_getBlock(t)
    \/ estimateGasWithBump_estimateGas(t)
    \/ settle(t)

NextGas ==
    \/ \E t \in Tasks, m \in Managers, o \in GasOptionInputs :
          \E request \in TransferInputs \cup {Absent} :
             GasUtils_estimateGasWithBump(t, m, request, o)
    \/ \E t \in Tasks : EstimateSteps(t)

(* the gas prices the node reports: quiet ones, and a congested one above the
   fallback fee cap *)
GasPriceInputs == (0 .. MaxGasPriceGwei) \cup {FallbackMaxFeeGwei + MaxGasPriceGwei}

InitGas ==
    InitWith({1}, {1},
             OptionsOf({"solady"}, {"key1"}, {Absent}, {Absent}),
             {1},
             {0},
             {Network(parseGwei(g), b) :
                 g \in GasPriceInputs,
                 b \in {Absent} \cup {Some(parseGwei(v)) : v \in 0 .. MaxBaseFeeGwei}})

SpecGas == InitGas /\ [][NextGas]_vars

(* GasUtils.sendTransactionWithBump called directly, and through the funding
   transfers of FundingUtils *)
SendOptionInputs ==
    [gasBumpGwei : {Absent, Some(MaxGasBumpGwei)}, priorityBumpPercent : {Absent},
     timeout : TimeoutInputs]

(* requests with and without call data (GasUtils.test.js lines 127-130 and 164-168) *)
SendRequestInputs ==
    TransferInputs \cup {Some([to |-> Recipient, value |-> 1, data |-> "0x1234"])}

NextSend ==
    \/ \E t \in Tasks, m \in Managers, o \in SendOptionInputs, request \in SendRequestInputs :
          GasUtils_sendTransactionWithBump(t, m, request, o)
    \/ \E t \in Tasks, m \in Managers, min \in {Absent, Some(MaxMinBalance)} :
          \/ FundingUtils_ensureFunding(t, m, deriveAccount(manager[m]), min)
          \/ FundingUtils_fundSmartAccount(t, m, deriveAccount(manager[m]), min)
    \/ \E t \in Tasks : FundingSteps(t) \/ GasSteps(t)
    \/ Included

InitSend ==
    InitWith({1}, {1},
             OptionsOf({"solady"}, {"key1"}, {Absent}, {Absent}),
             {1, FundedEoa},
             {0},
             {Network(parseGwei(1), b) : b \in {Absent, Some(parseGwei(1))}})

SpecSend == InitSend /\ [][NextSend]_vars

(* every awaited call of the transport settles: it resolves or it rejects *)
SendTasks == {1}
SpecSendLive ==
    /\ SpecSend
    /\ \A t \in SendTasks :
          /\ WF_vars(estimateGasWithBump_getGasPrice(t))
          /\ WF_vars(estimateGasWithBump_getBlock(t))
          /\ WF_vars(estimateGasWithBump_estimateGas(t))
          /\ WF_vars(sendTransactionWithBump_sendTransaction(t))

(* two managers side by side: what initialize() derives for each *)
SaltInputs == {Absent} \cup {Some(v) : v \in Salts}

NextDerive ==
    \/ \E t \in Tasks, m \in Managers :
          initialize(t, m) \/ getBalances(t, m) \/ ensureFunding(t, m)
    \/ \E t \in Tasks :
          \/ initialize_toSmartAccount(t)
          \/ getBalances_eoaBalance(t)
          \/ getBalances_smartAccountBalance(t)
          \/ ensureFunding_eoaBalance(t)
          \/ ensureFunding_smartAccountBalance(t)
          \/ settle(t)

InitDerive ==
    InitWith({1}, {1, 2},
             OptionsOf(Implementations, Keys, {Absent, Some(0), Some(MaxMinBalance)},
                       SaltInputs),
             {0},
             {MaxMinBalance},
             {CalmNetwork})

SpecDerive == InitDerive /\ [][NextDerive]_vars

(* two sendUserOperation calls in flight on one manager: nothing in the
   manager or in FundingUtils orders their steps *)
ConcurrentCalls == << [to |-> Recipient, value |-> 1] >>

NextConcurrent ==
    \/ \E t \in Tasks, m \in Managers :
          initialize(t, m) \/ sendUserOperation(t, m, ConcurrentCalls)
    \/ \E t \in Tasks : ManagerSteps(t) \/ FundingSteps(t) \/ GasSteps(t)
    \/ Included

InitConcurrent ==
    InitWith({1, 2}, {1},
             OptionsOf({"solady"}, {"key1"}, {Some(MaxMinBalance)}, {Absent}),
             {FundedEoa},
             {0},
             {CalmNetwork})

SpecConcurrent == InitConcurrent /\ [][NextConcurrent]_vars

(* two estimateGasWithBump calls side by side, on one request and one network
   state, each with its own gasBumpGwei *)
CompareRequest == Some([to |-> Recipient, value |-> 1])
CompareOptionInputs ==
    [gasBumpGwei : BumpInputs, priorityBumpPercent : {Absent, Some(50)}, timeout : {Absent}]

NextCompare ==
    \/ \E t \in Tasks, m \in Managers, o \in CompareOptionInputs :
          GasUtils_estimateGasWithBump(t, m, CompareRequest, o)
    \/ \E t \in Tasks : EstimateSteps(t)

InitCompare ==
    InitWith({1, 2}, {1},
             OptionsOf({"solady"}, {"key1"}, {Absent}, {Absent}),
             {1},
             {0},
             {Network(parseGwei(MaxGasPriceGwei), Some(parseGwei(v))) : v \in 0 .. MaxBaseFeeGwei})

SpecCompare == InitCompare /\ [][NextCompare]_vars

(* checkBalance called on its own, next to funding transfers that change the
   balances it reads *)
UnfundedAddress == <<"eoa", "0x1234567890123456789012345678901234567890">>
InvalidAddresses == {<<"invalid", "invalid-address">>, <<"invalid", "">>, <<"null">>}
BalanceAddressInputs == DOMAIN balance \cup {UnfundedAddress} \cup InvalidAddresses

NextBalance ==
    \/ \E t \in Tasks, m \in Managers :
          \/ \E address \in BalanceAddressInputs : FundingUtils_checkBalance(t, m, address)
          \/ FundingUtils_fundSmartAccount(t, m, deriveAccount(manager[m]),
                                           Some(MaxMinBalance))
    \/ \E t \in Tasks :
          \/ checkBalance_getBalance(t)
          \/ fundSmartAccount_currentBalance(t)
          \/ fundSmartAccount_newBalance(t)
          \/ GasSteps(t)
    \/ Included

InitBalance ==
    InitWith({1}, {1},
             OptionsOf({"solady"}, {"key1"}, {Absent}, {Absent}),
             {1, FundedEoa},
             {0, MaxMinBalance},
             {CalmNetwork})

SpecBalance == InitBalance /\ [][NextBalance]_vars

(* one run of main() on a fresh manager *)
NextMain ==
    \/ \E t \in Tasks, m \in Managers : main(t, m)
    \/ \E t \in Tasks :
          \/ main_await(t)
          \/ ManagerSteps(t)
          \/ FundingSteps(t)
          \/ estimateGasWithBump_getGasPrice(t)
          \/ estimateGasWithBump_getBlock(t)
          \/ estimateGasWithBump_estimateGas(t)
          \/ sendTransactionWithBump_sendTransaction(t)
          \/ sendTransactionWithBump_waitForReceipt(t)
    \/ Included

InitMain ==
    InitWith({1}, {1},
             OptionsOf(Implementations, {"key1"}, {Absent}, {Absent}),
             {parseEther(DefaultMinBalanceMilli), FundedEoa},
             {0, parseEther(DefaultMinBalanceMilli)},
             {CalmNetwork})

SpecMain == InitMain /\ [][NextMain]_vars

(* two balance queries side by side on one manager, next to funding checks
   whose transfers change the balances *)
NextSnapshot ==
    \/ \E t \in Tasks, m \in Managers :
          \/ initialize(t, m)
          \/ getBalances(t, m)
          \/ displayBalances(t, m)
          \/ ensureFunding(t, m)
    \/ \E t \in Tasks :
          \/ initialize_toSmartAccount(t)
          \/ getBalances_eoaBalance(t)
          \/ getBalances_smartAccountBalance(t)
          \/ FundingSteps(t)
          \/ GasSteps(t)
    \/ Included

InitSnapshot ==
    InitWith({1, 2}, {1},
             OptionsOf({"solady"}, {"key1"}, {Some(MaxMinBalance)}, {Absent}),
             {MaxMinBalance, FundedEoa},
             {0, MaxMinBalance},
             {CalmNetwork})

SpecSnapshot == InitSnapshot /\ [][NextSnapshot]_vars

(* one caller making funding checks and user operations one after another,
   every awaited external call of which eventually returns or fails *)
LiveTasks == {1}

AwaitedStep(t) ==
    \/ initialize_toSmartAccount(t)
    \/ ensureFunding_eoaBalance(t)
    \/ ensureFunding_smartAccountBalance(t)
    \/ fundSmartAccount_currentBalance(t)
    \/ fundSmartAccount_newBalance(t)
    \/ estimateGasWithBump_getGasPrice(t)
    \/ estimateGasWithBump_getBlock(t)
    \/ estimateGasWithBump_estimateGas(t)
    \/ sendTransactionWithBump_sendTransaction(t)
    \/ sendTransactionWithBump_waitForReceipt(t)
    \/ sendUserOperation_estimateUserOperationGas(t)
    \/ sendUserOperation_sendUserOperation(t)
    \/ sendUserOperation_waitForReceipt(t)

NextLive ==
    \/ \E t \in Tasks, m \in Managers :
          \/ initialize(t, m)
          \/ ensureFunding(t, m)
          \/ sendUserOperation(t, m, ConcurrentCalls)
          \/ \E min \in {Absent, Some(MaxMinBalance)} :
                FundingUtils_ensureFunding(t, m, deriveAccount(manager[m]), min)
    \/ \E t \in Tasks : AwaitedStep(t) \/ settle(t)
    \/ Included

InitLive ==
    InitWith(LiveTasks, {1},
             OptionsOf(Implementations, {"key1"}, {Some(MaxMinBalance)}, {Absent}),
             {MaxMinBalance + parseEther(FundingBufferMilli) - 1, FundedEoa},
             {0},
             {CalmNetwork})

SpecLive == InitLive /\ [][NextLive]_vars /\ \A t \in LiveTasks : WF_vars(AwaitedStep(t))

(* two estimateGasWithBump calls on a chain that produces blocks: each call
   has its own request and options, and reads the gas price and the base fee
   of whatever block is the latest when its await is served *)
BlockGasPrices == {parseGwei(1), parseGwei(MaxGasPriceGwei)}
BlockBaseFees == {parseGwei(0), parseGwei(MaxBaseFeeGwei)}
BlockOptionInputs ==
    [gasBumpGwei : {Absent}, priorityBumpPercent : {Absent, Some(50)}, timeout : {Absent}]
BlockRequestInputs == {Absent, Some([to |-> Recipient, value |-> 1])}

newBlock ==
    /\ \E g \in BlockGasPrices, b \in BlockBaseFees :
          network' = [network EXCEPT !.gasPrice = g, !.baseFeePerGas = Some(b)]
    /\ UNCHANGED <<balance, pending, mined, hashes, task>>
    /\ ManagerUnchanged

NextBlocks ==
    \/ \E t \in Tasks, m \in Managers, o \in BlockOptionInputs, request \in BlockRequestInputs :
          GasUtils_estimateGasWithBump(t, m, request, o)
    \/ \E t \in Tasks :
          \/ estimateGasWithBump_getGasPrice(t)
          \/ estimateGasWithBump_getBlock(t)
          \/ estimateGasWithBump_estimateGas(t)
    \/ newBlock

InitBlocks ==
    InitWith({1, 2}, {1},
             OptionsOf({"solady"}, {"key1"}, {Absent}, {Absent}),
             {1},
             {0},
             {Network(g, Some(b)) : g \in BlockGasPrices, b \in BlockBaseFees})

SpecBlocks == InitBlocks /\ [][NextBlocks]_vars

(* ------------------------------- claims ------------------------------- *)
Made(r, call) == \E i \in 1 .. Len(r.net) : r.net[i] = call
Threw(r, err) == r.pc = "done" /\ r.result = Some([kind |-> "throw", error |-> err])
Returned(r) == r.pc = "done" /\ ~IsAbsent(r.result) /\ Get(r.result).kind = "return"
ThrewTransport(r) ==
    r.pc = "done" /\ ~IsAbsent(r.result) /\ Get(r.result).kind = "throw"
        /\ Get(r.result).error.message = "transport"
BundlerCalls ==
    {"estimateUserOperationGas", "sendUserOperation", "waitForUserOperationReceipt"}
Buffer == parseEther(FundingBufferMilli)
IsEnsureFunding(r) == r.method \in {"FundingUtils.ensureFunding", "ensureFunding"} \cup SubmitMethods

(* C1: a call of getBalances, displayBalances, ensureFunding, sendUserOperation,
   sendSelfTransaction or transferTo made while initialize() has not completed
   successfully on the manager has failed with the not-initialized error, and
   has made no network call and submitted nothing. *)
C1_UninitializedCallsFail ==
    \A t \in Tasks :
        LET r == task[t] IN
        (r.method \in ManagerMethods \ {"initialize"} /\ ~r.wasInitialized) =>
            /\ Threw(r, NotInitializedError)
            /\ r.net = <<>>
            /\ r.sent = <<>>

C1_Witness ==
    \E t \in Tasks :
        /\ task[t].method = "sendSelfTransaction"
        /\ ~task[t].wasInitialized
        /\ task[t].pc = "done"

(* C2: a sendUserOperation call reaches the bundler (estimation, submission,
   receipt wait) only after ensureFunding, on the manager's own account and
   with the manager's minBalance, has returned to it: with null after reading
   a balance of at least minBalance, or with the receipt of a transfer of this
   call to the account.  A call whose ensureFunding has not returned has made
   no bundler call. *)
C2_FundingBeforeSubmission ==
    \A t \in Tasks :
        LET r == task[t]
            reached == \E i \in 1 .. Len(r.net) : r.net[i] \in BundlerCalls
        IN
        r.method \in SubmitMethods =>
            /\ r.funding = "none" => ~reached
            /\ reached =>
                  /\ r.target = manager[r.mgr].account
                  /\ r.minBal = manager[r.mgr].minBalance
                  /\ r.net[1] = "getBalance" /\ r.net[2] = "getBalance"
                  /\ r.funding = "null" =>
                        Get(IF IsAbsent(r.currentBalance) THEN r.smartAccountBalance
                            ELSE r.currentBalance) >= r.minBal
                  /\ r.funding = "receipt" =>
                        /\ r.sent[1].to = r.target
                        /\ Made(r, "waitForTransactionReceipt")
                        /\ ~IsAbsent(r.newBalance)

C2_Witness ==
    \E t \in Tasks :
        /\ task[t].method = "sendUserOperation"
        /\ task[t].funding = "receipt"
        /\ Made(task[t], "sendUserOperation")
        /\ Returned(task[t])

(* C3 as stated: when ensureFunding has read a target balance below minBalance
   (and fundSmartAccount the same balance again) and a funding-source balance
   of at least (minBalance - targetBalance) + 2*buffer, and no read or
   submission has failed, the call does not fail and, once past the
   submission, has sent exactly one transfer, of (minBalance - targetBalance)
   + buffer, to the target. *)
C3_Original ==
    \A t \in Tasks :
        LET r == task[t] IN
        ( /\ r.method = "FundingUtils.ensureFunding"
          /\ ~IsAbsent(r.eoaBalance) /\ ~IsAbsent(r.smartAccountBalance)
          /\ Get(r.smartAccountBalance) < r.minBal
          /\ Get(r.eoaBalance) >= (r.minBal - Get(r.smartAccountBalance)) + 2 * Buffer
          /\ r.pc = "done" /\ ~ThrewTransport(r) ) =>
            /\ Returned(r)
            /\ r.currentBalance = r.smartAccountBalance =>
                  /\ Len(r.sent) = 1
                  /\ r.sent[1].to = r.target
                  /\ r.sent[1].value = (r.minBal - Get(r.smartAccountBalance)) + Buffer

(* C3 amended: when ensureFunding has read a target balance below minBalance
   and a funding-source balance of at least minBalance + buffer, it does not
   fail for insufficient funds, and when fundSmartAccount has read the same
   target balance again the call sends exactly one transfer to the target, of
   exactly (minBalance - targetBalance) + buffer: none before the submission
   step, that one from then on. *)
C3_ExactTransfer ==
    \A t \in Tasks :
        LET r == task[t] IN
        ( /\ r.method = "FundingUtils.ensureFunding"
          /\ ~IsAbsent(r.eoaBalance) /\ ~IsAbsent(r.smartAccountBalance)
          /\ Get(r.smartAccountBalance) < r.minBal
          /\ Get(r.eoaBalance) >= r.minBal + Buffer ) =>
            /\ ~Threw(r, InsufficientError(r.minBal))
            /\ r.currentBalance = r.smartAccountBalance =>
                  IF r.pc \in { "estimateGasWithBump_getGasPrice", "estimateGasWithBump_getBlock",
                                "estimateGasWithBump_estimateGas",
                                "sendTransactionWithBump_sendTransaction" }
                  THEN r.sent = <<>>
                  ELSE /\ Len(r.sent) = 1
                       /\ r.sent[1].to = r.target
                       /\ r.sent[1].value = (r.minBal - Get(r.smartAccountBalance)) + Buffer

C3_Witness ==
    \E t \in Tasks :
        LET r == task[t] IN
        /\ r.method = "FundingUtils.ensureFunding"
        /\ Returned(r) /\ r.funding = "receipt"
        /\ r.currentBalance = r.smartAccountBalance
        /\ Get(r.smartAccountBalance) > 0
        /\ Get(r.eoaBalance) = r.minBal + Buffer
        /\ Len(r.sent) = 1

(* C4 as stated: when ensureFunding has read a target balance below minBalance
   and a funding-source balance below requiredTransfer + buffer, with
   requiredTransfer = (minBalance - targetBalance) + buffer, it sends no
   transfer, and when it ends without a transport failure it has failed with
   the insufficient-funds error. *)
C4_Original ==
    \A t \in Tasks :
        LET r == task[t] IN
        ( /\ r.method = "FundingUtils.ensureFunding"
          /\ ~IsAbsent(r.eoaBalance) /\ ~IsAbsent(r.smartAccountBalance)
          /\ Get(r.smartAccountBalance) < r.minBal
          /\ Get(r.eoaBalance) < ((r.minBal - Get(r.smartAccountBalance)) + Buffer) + Buffer ) =>
            /\ r.sent = <<>>
            /\ (r.pc = "done" /\ ~ThrewTransport(r)) => Threw(r, InsufficientError(r.minBal))

(* C4 amended: when ensureFunding has read a target balance below minBalance
   and a funding-source balance below minBalance + buffer, it has failed with
   the insufficient-funds error and has sent no transfer. *)
C4_InsufficientFails ==
    \A t \in Tasks :
        LET r == task[t] IN
        ( /\ r.method = "FundingUtils.ensureFunding"
          /\ ~IsAbsent(r.eoaBalance) /\ ~IsAbsent(r.smartAccountBalance)
          /\ Get(r.smartAccountBalance) < r.minBal
          /\ Get(r.eoaBalance) < r.minBal + Buffer ) =>
            /\ r.sent = <<>>
            /\ Threw(r, InsufficientError(r.minBal))
            /\ r.net = <<"getBalance", "getBalance">>

C4_Witness ==
    \E t \in Tasks :
        LET r == task[t] IN
        /\ r.method = "FundingUtils.ensureFunding"
        /\ Threw(r, InsufficientError(r.minBal))
        /\ Get(r.eoaBalance) = r.minBal + Buffer - 1
        /\ Get(r.eoaBalance) >= (r.minBal - Get(r.smartAccountBalance)) + 2 * Buffer

(* C5: when ensureFunding has read a target balance of at least minBalance
   (equality included) it has returned null after its two balance reads and
   nothing else: no fee query, no gas estimate, no submission, no wait. *)
C5_SufficientIsNoOp ==
    \A t \in Tasks :
        LET r == task[t] IN
        ( /\ r.method = "FundingUtils.ensureFunding"
          /\ ~IsAbsent(r.smartAccountBalance)
          /\ Get(r.smartAccountBalance) >= r.minBal ) =>
            /\ r.pc = "done"
            /\ r.result = Some([kind |-> "return", value |-> Absent])
            /\ r.net = <<"getBalance", "getBalance">>
            /\ r.sent = <<>>
            /\ r.hash = 0

C5_Witness ==
    \E t \in Tasks :
        LET r == task[t] IN
        /\ r.method = "FundingUtils.ensureFunding"
        /\ r.smartAccountBalance = Some(r.minBal)
        /\ r.minBal > 0
        /\ Returned(r)

(* C6: when ensureFunding has returned and the target was not spent from
   since the call read its balance: after a receipt, the balance read after
   the confirmation is at least minBalance and above the balance read before;
   after null, the last target balance the call read is at least minBalance. *)
C6_FundedAfterReturn ==
    \A t \in Tasks :
        LET r == task[t] IN
        (IsEnsureFunding(r) /\ ~r.spent) =>
            /\ r.funding = "receipt" =>
                  /\ Get(r.newBalance) >= r.minBal
                  /\ Get(r.newBalance) > Get(r.smartAccountBalance)
            /\ r.funding = "null" =>
                  Get(IF IsAbsent(r.currentBalance) THEN r.smartAccountBalance
                      ELSE r.currentBalance) >= r.minBal

C6_Witness ==
    \E t \in Tasks :
        LET r == task[t] IN
        /\ r.method = "ensureFunding"
        /\ Returned(r) /\ r.funding = "receipt" /\ ~r.spent
        /\ Get(r.newBalance) >= r.minBal

(* C7: an estimateGasWithBump call on a request that is not null, in which a
   step of the live estimation has failed, has returned (not thrown) the
   fallback 21000 / 10 gwei / 2 gwei, whatever bumps were requested. *)
C7_FallbackOnFailure ==
    \A t \in Tasks :
        LET r == task[t] IN
        ( /\ r.method = "estimateGasWithBump"
          /\ ~IsAbsent(r.request)
          /\ r.estimationFailed ) =>
            /\ Returned(r)
            /\ Get(r.result).value.gasLimit = 21000
            /\ Get(r.result).value.maxFeePerGas = 10 * UnitsPerGwei
            /\ Get(r.result).value.maxPriorityFeePerGas = 2 * UnitsPerGwei

C7_Witness ==
    \E t \in Tasks :
        LET r == task[t] IN
        /\ r.method = "estimateGasWithBump"
        /\ ~IsAbsent(r.request)
        /\ r.estimationFailed
        /\ Len(r.net) = 3
        /\ Get(r.opts).gasBumpGwei = MaxGasBumpGwei
        /\ Get(r.opts).priorityBumpPercent = 50
        /\ Returned(r)

(* C8: an estimateGasWithBump call on a null request that has completed has
   thrown: it has returned no schedule. *)
C8_NullRequestRejected ==
    \A t \in Tasks :
        LET r == task[t] IN
        ( /\ r.method = "estimateGasWithBump"
          /\ IsAbsent(r.request)
          /\ r.pc = "done" ) =>
            Get(r.result).kind = "throw"

(* C9 as stated: an operation handed to the bundler by sendUserOperation
   carries the estimated limits when the estimation succeeded and
   100000 / 100000 / 21000 when it failed, on either manager. *)
C9_SubmittedLimits ==
    \A t \in Tasks :
        LET r == task[t] IN
        (r.method \in SubmitMethods /\ Made(r, "sendUserOperation")) =>
            LET op == r.sent[Len(r.sent)] IN
            /\ r.userOpEstimation \in {"ok", "failed"}
            /\ r.userOpEstimation = "ok" => op.limits = Some(network.userOpGas)
            /\ r.userOpEstimation = "failed" =>
                  op.limits = Some([ callGasLimit |-> 100000,
                                     verificationGasLimit |-> 100000,
                                     preVerificationGas |-> 21000 ])

(* C9 amended: on the Solady manager, an operation handed to the bundler
   carries the estimated limits when the estimation succeeded and
   100000 / 100000 / 21000 when it failed, and a call whose estimation failed
   does not end before it has handed its operation to the bundler.  The
   Coinbase manager makes no estimation call and hands the operation over
   with no limits set. *)
C9_SoladyLimits ==
    \A t \in Tasks :
        LET r == task[t]
            solady == manager[r.mgr].implementation = "solady"
        IN
        r.method \in SubmitMethods =>
            /\ (r.userOpEstimation = "failed" /\ r.pc = "done") =>
                  Made(r, "sendUserOperation")
            /\ ~solady => (r.userOpEstimation = "none" /\ ~Made(r, "estimateUserOperationGas"))
            /\ Made(r, "sendUserOperation") =>
                  LET op == r.sent[Len(r.sent)] IN
                  /\ Len(r.sent) = IF r.funding = "receipt" THEN 2 ELSE 1
                  /\ op.account = manager[r.mgr].account
                  /\ op.calls = r.calls
                  /\ solady => r.userOpEstimation \in {"ok", "failed"}
                  /\ r.userOpEstimation = "ok" => op.limits = Some(network.userOpGas)
                  /\ r.userOpEstimation = "failed" =>
                        op.limits = Some([ callGasLimit |-> 100000,
                                           verificationGasLimit |-> 100000,
                                           preVerificationGas |-> 21000 ])
                  /\ r.userOpEstimation = "none" => op.limits = Absent

C9_Witness ==
    \E t \in Tasks :
        LET r == task[t] IN
        /\ r.method = "transferTo"
        /\ manager[r.mgr].implementation = "solady"
        /\ r.userOpEstimation = "failed"
        /\ Made(r, "sendUserOperation")
        /\ Returned(r)

(* C10: two managers with the same owner key and implementation whose
   constructors were given different salts hold different account addresses
   once both are initialized. *)
C10_SaltSeparatesAccounts ==
    \A m1 \in Managers, m2 \in Managers :
        ( /\ initialized[m1] /\ initialized[m2]
          /\ options[m1].privateKey = options[m2].privateKey
          /\ options[m1].implementation = options[m2].implementation
          /\ ~IsAbsent(options[m1].salt) /\ ~IsAbsent(options[m2].salt)
          /\ options[m1].salt # options[m2].salt ) =>
            manager[m1].account # manager[m2].account

(* C11 as stated: the account is derived exactly once, so an initialize()
   called on a manager on which initialize() has already succeeded runs no
   derivation. *)
C11_Original ==
    \A t \in Tasks :
        LET r == task[t] IN
        (r.method = "initialize" /\ r.wasInitialized /\ r.pc = "done") =>
            Count(r, "toSmartAccount") = 0

(* C11: once initialize() has succeeded on a manager, no step of any call (a
   further initialize(), succeeding or failing, a balance query, a funding
   check, a submission, a failed operation) clears the manager's account or
   changes its address: the manager stays initialized, with the account of
   its owner and a bundler client. The account is not derived once only:
   every initialize() that has completed has run the derivation once more,
   also on an initialized manager, and one that succeeded has assigned and
   returned the account it derived, which has the address of the earlier
   one. *)
C11_DerivedByEveryInitialize ==
    \A t \in Tasks :
        LET r == task[t] IN
        (r.method = "initialize" /\ r.pc = "done") =>
            /\ r.net = <<"toSmartAccount">>
            /\ Returned(r) =>
                  /\ Get(r.result).value = deriveAccount(manager[r.mgr])
                  /\ manager[r.mgr].account = Get(r.result).value
                  /\ manager[r.mgr].bundlerClient = BundlerClient
                  /\ initialized[r.mgr]
            /\ ~Returned(r) => ThrewTransport(r)

C11_AddressKept ==
    \A m \in Managers :
        initialized[m] =>
            /\ initialized'[m]
            /\ manager'[m].account = manager[m].account
            /\ manager'[m].account # Absent
            /\ manager'[m].bundlerClient # Absent
            /\ manager'[m].account = deriveAccount(manager'[m])

C11_AddressFixed ==
    []C11_DerivedByEveryInitialize /\ [][C11_AddressKept]_vars

C11_Witness ==
    \E t \in Tasks :
        LET r == task[t] IN
        /\ r.method = "initialize"
        /\ r.wasInitialized
        /\ Returned(r)
        /\ Count(r, "toSmartAccount") = 1
        /\ Get(r.result).value = manager[r.mgr].account
        /\ initialized[r.mgr]


(* C12: a call submits its transfer at most once; a call that ended on the
   transfer submission has failed with that submission's error and holds no
   hash; a call that ended on the confirmation wait without a receipt has
   failed with the wait's error; in both cases fundSmartAccount, ensureFunding
   and sendUserOperation have ended with the same error, with no funding
   outcome and nothing handed to the bundler. *)
C12_TransferFailurePropagates ==
    \A t \in Tasks :
        LET r == task[t] IN
        /\ Count(r, "sendTransaction") <= 1
        /\ Count(r, "waitForTransactionReceipt") <= 1
        /\ (r.pc = "done" /\ LastCall(r) = "sendTransaction") =>
              /\ Threw(r, TransportError("sendTransaction"))
              /\ r.hash = 0 /\ r.funding = "none" /\ Len(r.sent) = 1
        /\ (r.pc = "done" /\ LastCall(r) = "waitForTransactionReceipt") =>
              IF IsAbsent(r.receipt)
              THEN /\ Threw(r, TransportError("waitForTransactionReceipt"))
                   /\ r.funding = "none" /\ Len(r.sent) = 1
              ELSE r.method = "sendTransactionWithBump" /\ Returned(r)
        /\ (r.pc = "done" /\ IsAbsent(r.receipt) /\ Made(r, "sendTransaction")) =>
              LastCall(r) \in {"sendTransaction", "waitForTransactionReceipt"}

C12_Witness ==
    \E t \in Tasks :
        LET r == task[t] IN
        /\ r.method = "transferTo"
        /\ Threw(r, TransportError("sendTransaction"))
        /\ Len(r.sent) = 1


(* C13: a call hands its operation to the bundler at most once and waits for
   its receipt at most once; a call that ended on the bundler submission has
   failed with that submission's error; a call that ended on the receipt wait
   has either returned the hash and the receipt of its included operation or
   failed with the wait's error.  This holds for sendUserOperation and for
   its wrappers sendSelfTransaction and transferTo. *)
C13_BundlerFailurePropagates ==
    \A t \in Tasks :
        LET r == task[t] IN
        r.method \in SubmitMethods =>
            /\ Count(r, "sendUserOperation") <= 1
            /\ Count(r, "waitForUserOperationReceipt") <= 1
            /\ (r.pc = "done" /\ LastCall(r) = "sendUserOperation") =>
                  Threw(r, TransportError("sendUserOperation"))
            /\ (r.pc = "done" /\ LastCall(r) = "waitForUserOperationReceipt") =>
                  IF Returned(r)
                  THEN /\ Get(r.result).value.hash = r.hash
                       /\ Get(r.result).value.receipt = [userOpHash |-> r.hash]
                       /\ r.hash \in mined
                  ELSE Threw(r, TransportError("waitForUserOperationReceipt"))
            /\ Returned(r) => LastCall(r) = "waitForUserOperationReceipt"

C13_Witness ==
    \E t \in Tasks :
        LET r == task[t] IN
        /\ r.method = "sendSelfTransaction"
        /\ Threw(r, TransportError("waitForUserOperationReceipt"))
        /\ r.hash \in mined


Max(a, b) == IF a >= b THEN a ELSE b

(* C14: nothing orders two sendUserOperation calls on one manager.  When both
   have read the same account balance b below minBalance and the funding
   check of both has returned a receipt, each has sent its own transfer of
   (minBalance - b) + buffer, and (nothing having been spent from the account
   meanwhile) the account has been seen to hold at least b plus twice that
   amount: it received more than (minBalance - b) + buffer. *)
C14_BothCallsFund ==
    \A t1 \in Tasks, t2 \in Tasks :
        LET r1 == task[t1]
            r2 == task[t2]
            b == Get(r1.currentBalance)
            amount == (r1.minBal - b) + Buffer
        IN
        ( /\ t1 # t2
          /\ r1.method = "sendUserOperation" /\ r2.method = "sendUserOperation"
          /\ r1.mgr = r2.mgr
          /\ r1.funding = "receipt" /\ r2.funding = "receipt"
          /\ r1.currentBalance = r2.currentBalance ) =>
            /\ b < r1.minBal
            /\ r1.sent[1].to = r1.target /\ r2.sent[1].to = r1.target
            /\ r1.sent[1].value = amount /\ r2.sent[1].value = amount
            /\ (~r1.spent /\ ~r2.spent) =>
                  /\ Max(Get(r1.newBalance), Get(r2.newBalance)) >= b + 2 * amount
                  /\ Max(Get(r1.newBalance), Get(r2.newBalance)) - b > (r1.minBal - b) + Buffer

C14_Witness ==
    \E t1 \in Tasks, t2 \in Tasks :
        LET r1 == task[t1]
            r2 == task[t2]
        IN
        /\ t1 # t2
        /\ r1.method = "sendUserOperation" /\ r2.method = "sendUserOperation"
        /\ r1.funding = "receipt" /\ r2.funding = "receipt"
        /\ r1.smartAccountBalance = Some(0) /\ r2.smartAccountBalance = Some(0)
        /\ r1.currentBalance = Some(0) /\ r2.currentBalance = Some(0)
        /\ balance[r1.target] = 2 * (r1.minBal + Buffer)


(* C15: a call whose wait for the funding transfer's confirmation has failed
   or timed out has ended with that failure, has handed nothing to the
   bundler and makes no further call; the step in which the wait gives up
   changes nothing on the chain side, and a submitted transfer leaves the
   pending set only by being included, its value then reaching the account. *)
C15_TimeoutLeavesTransfer ==
    [][ /\ \A t \in Tasks :
              LET r == task'[t] IN
              (r.method \in SubmitMethods
                  /\ Threw(r, TransportError("waitForTransactionReceipt"))) =>
                  /\ \A c \in BundlerCalls : ~Made(r, c)
                  /\ LastCall(r) = "waitForTransactionReceipt"
                  /\ r.funding = "none" /\ IsAbsent(r.newBalance)
        /\ \A t \in Tasks :
              (task[t].pc = "sendTransactionWithBump_waitForReceipt"
                  /\ task'[t].pc = "done") =>
                  UNCHANGED <<pending, mined, balance>>
        /\ \A p \in pending \ pending' :
              /\ p.hash \in mined'
              /\ p.kind = "transaction" =>
                    balance'[p.calls[1].to] = balance[p.calls[1].to] + p.calls[1].value
      ]_vars

C15_Witness ==
    \E t \in Tasks :
        LET r == task[t] IN
        /\ r.method = "sendUserOperation"
        /\ Threw(r, TransportError("waitForTransactionReceipt"))
        /\ r.hash \notin mined
        /\ \E p \in pending : p.hash = r.hash /\ p.calls[1].to = r.target
        /\ balance[r.target] < r.minBal


ReturnedValue(r, val) == r.pc = "done" /\ r.result = Some([kind |-> "return", value |-> val])
Confirmed(r) == Len(r.sent) = 1 /\ r.hash # 0 /\ ~IsAbsent(r.receipt)

(* C16 as stated: a completed ensureFunding has returned null exactly when it
   has returned without sending a transfer, has returned its transfer's
   receipt exactly when it sent a transfer that was confirmed, and has failed
   otherwise; a call failing for insufficient funds has sent nothing. *)
C16_Original ==
    \A t \in Tasks :
        LET r == task[t] IN
        (r.method = "FundingUtils.ensureFunding" /\ r.pc = "done") =>
            /\ ReturnedValue(r, Absent) <=> (Returned(r) /\ r.sent = <<>>)
            /\ (ReturnedValue(r, r.receipt) /\ ~IsAbsent(r.receipt)) <=> Confirmed(r)
            /\ (~(Returned(r) /\ r.sent = <<>>) /\ ~Confirmed(r)) => Get(r.result).kind = "throw"
            /\ Threw(r, InsufficientError(r.minBal)) => r.sent = <<>>

(* C16 amended: a completed ensureFunding has returned null exactly when it
   has returned without sending a transfer; it has returned its transfer's
   receipt exactly when it sent one, received its confirmation and then read
   the target's balance again; otherwise it has failed, which includes a
   confirmed transfer followed by a failed balance read; a call failing for
   insufficient funds has sent nothing. *)
C16_ThreeOutcomes ==
    \A t \in Tasks :
        LET r == task[t] IN
        (r.method = "FundingUtils.ensureFunding" /\ r.pc = "done") =>
            /\ ~IsAbsent(r.result)
            /\ ReturnedValue(r, Absent) <=> (Returned(r) /\ r.sent = <<>>)
            /\ ReturnedValue(r, Absent) => (r.hash = 0 /\ IsAbsent(r.receipt))
            /\ (Confirmed(r) /\ ~IsAbsent(r.newBalance)) <=>
                  (ReturnedValue(r, r.receipt) /\ ~IsAbsent(r.receipt))
            /\ (Confirmed(r) /\ ~IsAbsent(r.newBalance)) =>
                  (r.receipt = Some([transactionHash |-> r.hash]) /\ r.hash \in mined)
            /\ (~(Returned(r) /\ r.sent = <<>>) /\ ~(Confirmed(r) /\ ~IsAbsent(r.newBalance))) =>
                  Get(r.result).kind = "throw"
            /\ (Confirmed(r) /\ IsAbsent(r.newBalance)) => Threw(r, TransportError("getBalance"))
            /\ Threw(r, InsufficientError(r.minBal)) => r.sent = <<>>

C16_Witness ==
    \E t \in Tasks :
        LET r == task[t] IN
        /\ r.method = "FundingUtils.ensureFunding"
        /\ Confirmed(r)
        /\ ReturnedValue(r, Some([transactionHash |-> r.hash]))
        /\ Get(r.newBalance) >= r.minBal


(* C17: the threshold a manager hands to FundingUtils.ensureFunding is the
   minBalance its constructor was given, whatever value that is, and 0.01 ETH
   when it was given none. *)
C17_ConfiguredThreshold ==
    \A t \in Tasks :
        LET r == task[t]
            given == options[r.mgr].minBalance
        IN
        (r.method = "ensureFunding" /\ r.wasInitialized) =>
            r.minBal = IF IsAbsent(given) THEN parseEther(DefaultMinBalanceMilli) ELSE Get(given)


(* C18: every schedule estimateGasWithBump has returned, live or fallback,
   for a base fee of at least 0 and a gasBumpGwei of at least 0, has a
   maxFeePerGas that is at least its maxPriorityFeePerGas. *)
C18_FeeCapCoversPriority ==
    \A t \in Tasks :
        LET r == task[t] IN
        (r.method = "estimateGasWithBump" /\ Returned(r)) =>
            Get(r.result).value.maxFeePerGas >= Get(r.result).value.maxPriorityFeePerGas

C18_Witness ==
    \E t \in Tasks :
        LET r == task[t] IN
        /\ r.method = "estimateGasWithBump"
        /\ Returned(r) /\ ~r.estimationFailed
        /\ network.baseFeePerGas = Some(0)
        /\ Get(r.opts).gasBumpGwei = 0
        /\ Get(r.opts).priorityBumpPercent = 50
        /\ Get(r.result).value.maxFeePerGas = Get(r.result).value.maxPriorityFeePerGas


NoOptions == [gasBumpGwei |-> Absent, priorityBumpPercent |-> Absent, timeout |-> Absent]

(* C19: a live schedule returned by estimateGasWithBump has
   maxPriorityFeePerGas = 1 gwei + (1 gwei * priorityBumpPercent) / 100 and
   maxFeePerGas = latest base fee + that priority fee + gasBumpGwei gwei, the
   options left out counting as gasBumpGwei = 3 and priorityBumpPercent = 20;
   its gasLimit is the node's estimate, asked for the request carrying these
   two fee fields. *)
C19_LiveSchedule ==
    /\ gasOptions(NoOptions).gasBumpGwei = 3
    /\ gasOptions(NoOptions).priorityBumpPercent = 20
    /\ \A t \in Tasks :
          LET r == task[t]
              o == Get(r.opts)
              schedule == Get(r.result).value
              priority == 1 * UnitsPerGwei + (1 * UnitsPerGwei * o.priorityBumpPercent) \div 100
              fee == Get(network.baseFeePerGas) + priority + o.gasBumpGwei * UnitsPerGwei
          IN
          (r.method = "estimateGasWithBump" /\ Returned(r) /\ ~r.estimationFailed) =>
              /\ r.net = <<"getGasPrice", "getBlock", "estimateGas">>
              /\ schedule.maxPriorityFeePerGas = priority
              /\ schedule.maxFeePerGas = fee
              /\ schedule.gasLimit = network.gasLimit
              /\ r.estimated = Some([ request |-> r.request, maxFeePerGas |-> fee,
                                      maxPriorityFeePerGas |-> priority ])

C19_Witness ==
    \E t \in Tasks :
        LET r == task[t] IN
        /\ r.method = "estimateGasWithBump"
        /\ Returned(r) /\ ~r.estimationFailed
        /\ ~IsAbsent(r.request)
        /\ Get(r.opts).gasBumpGwei = 3 /\ Get(r.opts).priorityBumpPercent = 20
        /\ network.baseFeePerGas = Some(parseGwei(MaxBaseFeeGwei))
        /\ Get(r.result).value.maxPriorityFeePerGas = (12 * UnitsPerGwei) \div 10


Schedule(r) == Get(r.result).value
SameButBump(r1, r2) ==
    /\ r1.method = "estimateGasWithBump" /\ r2.method = "estimateGasWithBump"
    /\ Returned(r1) /\ Returned(r2)
    /\ r1.request = r2.request
    /\ Get(r1.opts).priorityBumpPercent = Get(r2.opts).priorityBumpPercent
    /\ Get(r1.opts).timeout = Get(r2.opts).timeout
    /\ Get(r1.opts).gasBumpGwei < Get(r2.opts).gasBumpGwei

(* C20 as stated: of two schedules returned for the same request and network
   state with gasBumpGwei a < b, the one for b has a maxFeePerGas that is not
   lower, and that is higher when both are live estimates. *)
C20_Original ==
    \A t1 \in Tasks, t2 \in Tasks :
        LET r1 == task[t1]
            r2 == task[t2]
        IN
        SameButBump(r1, r2) =>
            /\ Schedule(r2).maxFeePerGas >= Schedule(r1).maxFeePerGas
            /\ (~r1.estimationFailed /\ ~r2.estimationFailed) =>
                  Schedule(r2).maxFeePerGas > Schedule(r1).maxFeePerGas

(* C20 amended: of two schedules returned for the same request and network
   state with gasBumpGwei a < b, the one for b has a maxFeePerGas higher by
   (b - a) gwei when both are live estimates, and the same maxFeePerGas when
   both are the fallback; when exactly one of them is the fallback, that one
   carries 10 gwei whatever the other carries. *)
C20_MonotoneWhenLive ==
    \A t1 \in Tasks, t2 \in Tasks :
        LET r1 == task[t1]
            r2 == task[t2]
        IN
        SameButBump(r1, r2) =>
            /\ (~r1.estimationFailed /\ ~r2.estimationFailed) =>
                  /\ Schedule(r2).maxFeePerGas > Schedule(r1).maxFeePerGas
                  /\ Schedule(r2).maxFeePerGas - Schedule(r1).maxFeePerGas =
                        (Get(r2.opts).gasBumpGwei - Get(r1.opts).gasBumpGwei) * UnitsPerGwei
                  /\ Schedule(r2).maxPriorityFeePerGas = Schedule(r1).maxPriorityFeePerGas
            /\ (r1.estimationFailed /\ r2.estimationFailed) =>
                  Schedule(r2).maxFeePerGas = Schedule(r1).maxFeePerGas
            /\ r1.estimationFailed => Schedule(r1).maxFeePerGas = 10 * UnitsPerGwei
            /\ r2.estimationFailed => Schedule(r2).maxFeePerGas = 10 * UnitsPerGwei

C20_Witness ==
    \E t1 \in Tasks, t2 \in Tasks :
        /\ SameButBump(task[t1], task[t2])
        /\ ~task[t1].estimationFailed /\ ~task[t2].estimationFailed
        /\ Get(task[t1].opts).gasBumpGwei = 0
        /\ Get(task[t2].opts).gasBumpGwei = MaxGasBumpGwei
        /\ Schedule(task[t2]).maxFeePerGas =
              Schedule(task[t1]).maxFeePerGas + MaxGasBumpGwei * UnitsPerGwei


SameButPercent(r1, r2) ==
    /\ r1.method = "estimateGasWithBump" /\ r2.method = "estimateGasWithBump"
    /\ Returned(r1) /\ Returned(r2)
    /\ r1.request = r2.request
    /\ Get(r1.opts).gasBumpGwei = Get(r2.opts).gasBumpGwei
    /\ Get(r1.opts).timeout = Get(r2.opts).timeout
    /\ Get(r1.opts).priorityBumpPercent < Get(r2.opts).priorityBumpPercent

(* C21 as stated: of two schedules returned for the same request and network
   state with priorityBumpPercent p < q, the one for q has a
   maxPriorityFeePerGas that is not lower, and that is higher when both are
   live estimates. *)
C21_Original ==
    \A t1 \in Tasks, t2 \in Tasks :
        LET r1 == task[t1]
            r2 == task[t2]
        IN
        SameButPercent(r1, r2) =>
            /\ Schedule(r2).maxPriorityFeePerGas >= Schedule(r1).maxPriorityFeePerGas
            /\ (~r1.estimationFailed /\ ~r2.estimationFailed) =>
                  Schedule(r2).maxPriorityFeePerGas > Schedule(r1).maxPriorityFeePerGas

(* C21 amended: of two schedules returned for the same request and network
   state with priorityBumpPercent p < q, the one for q has a
   maxPriorityFeePerGas higher by (1 gwei * q) / 100 - (1 gwei * p) / 100 when
   both are live estimates, and its maxFeePerGas is higher by the same amount;
   both carry the same priority fee when both are the fallback; when exactly
   one of them is the fallback, that one carries 2 gwei whatever the other
   carries. *)
C21_PriorityMonotoneWhenLive ==
    \A t1 \in Tasks, t2 \in Tasks :
        LET r1 == task[t1]
            r2 == task[t2]
            p == Get(r1.opts).priorityBumpPercent
            q == Get(r2.opts).priorityBumpPercent
            step == (1 * UnitsPerGwei * q) \div 100 - (1 * UnitsPerGwei * p) \div 100
        IN
        SameButPercent(r1, r2) =>
            /\ (~r1.estimationFailed /\ ~r2.estimationFailed) =>
                  /\ Schedule(r2).maxPriorityFeePerGas > Schedule(r1).maxPriorityFeePerGas
                  /\ Schedule(r2).maxPriorityFeePerGas
                        = Schedule(r1).maxPriorityFeePerGas + step
                  /\ Schedule(r2).maxFeePerGas = Schedule(r1).maxFeePerGas + step
            /\ (r1.estimationFailed /\ r2.estimationFailed) =>
                  Schedule(r2).maxPriorityFeePerGas = Schedule(r1).maxPriorityFeePerGas
            /\ r1.estimationFailed => Schedule(r1).maxPriorityFeePerGas = 2 * UnitsPerGwei
            /\ r2.estimationFailed => Schedule(r2).maxPriorityFeePerGas = 2 * UnitsPerGwei

C21_Witness ==
    \E t1 \in Tasks, t2 \in Tasks :
        /\ SameButPercent(task[t1], task[t2])
        /\ ~task[t1].estimationFailed /\ ~task[t2].estimationFailed
        /\ Get(task[t1].opts).priorityBumpPercent = 20
        /\ Get(task[t2].opts).priorityBumpPercent = 50
        /\ Schedule(task[t2]).maxPriorityFeePerGas > Schedule(task[t1]).maxPriorityFeePerGas



(* C22: every schedule estimateGasWithBump has returned for a transfer
   request, after it has read the gas price, has a maxFeePerGas above that
   gas price. *)
C22_AboveGasPrice ==
    \A t \in Tasks :
        LET r == task[t] IN
        (r.method = "estimateGasWithBump" /\ Returned(r) /\ ~IsAbsent(r.request)
            /\ ~IsAbsent(r.gasPrice)) =>
            Schedule(r).maxFeePerGas > Get(r.gasPrice)



SameConfiguration(m1, m2) ==
    /\ options[m1].privateKey = options[m2].privateKey
    /\ options[m1].salt = options[m2].salt
    /\ options[m1].implementation = options[m2].implementation

(* C23: two initialized managers of one implementation built with the same
   owner key and the same salt hold the same account address, and every
   initialize() that has returned, the first or a repeated one, has returned
   the account the manager holds, which is the one its configuration fixes. *)
C23_DeterministicDerivation ==
    /\ \A m1 \in Managers, m2 \in Managers :
          (initialized[m1] /\ initialized[m2] /\ SameConfiguration(m1, m2)) =>
              manager[m1].account = manager[m2].account
    /\ \A m \in Managers :
          initialized[m] =>
              manager[m].account = deriveAccount(SmartAccountManager(options[m]))
    /\ \A t \in Tasks :
          LET r == task[t] IN
          (r.method = "initialize" /\ Returned(r)) =>
              /\ initialized[r.mgr]
              /\ Get(r.result).value = manager[r.mgr].account

C23_Witness ==
    \E t \in Tasks, m1 \in Managers, m2 \in Managers :
        LET r == task[t] IN
        /\ m1 # m2
        /\ initialized[m1] /\ initialized[m2] /\ SameConfiguration(m1, m2)
        /\ options[m1].salt = Some("0x0")
        /\ options[m1].minBalance # options[m2].minBalance
        /\ r.method = "initialize" /\ r.mgr = m1 /\ r.wasInitialized /\ Returned(r)
        /\ Get(r.result).value = manager[m2].account



BalanceQueries == {"getBalances", "displayBalances"}
Snapshot(r) == Get(r.result).value

(* a step of a balance query: its call, or one of its two reads *)
BalanceQueryStep(t) ==
    /\ task'[t] # task[t]
    /\ task'[t].method \in BalanceQueries

(* what a snapshot of balances eoa and acct of manager mg holds *)
SnapshotOf(mg, eoa, acct) ==
    [ eoa |-> [ address |-> mg.owner, balance |-> eoa,
                balanceFormatted |-> <<eoa \div UnitsPerEther, eoa % UnitsPerEther>> ],
      smartAccount |-> [ address |-> mg.account, balance |-> acct,
                         balanceFormatted |-> <<acct \div UnitsPerEther,
                                                acct % UnitsPerEther>> ] ]

C24_ReadsOnly ==
    \A t \in Tasks :
        LET r == task[t] IN
        (r.method \in BalanceQueries /\ r.wasInitialized) =>
            /\ r.net \in {<<>>, <<"getBalance">>, <<"getBalance", "getBalance">>}
            /\ r.sent = <<>> /\ r.hash = 0
            /\ Returned(r) =>
                  /\ r.net = <<"getBalance", "getBalance">>
                  /\ Snapshot(r) = SnapshotOf(manager[r.mgr], Get(r.eoaBalance),
                                              Get(r.smartAccountBalance))
                  /\ mined = {} =>
                        Snapshot(r) = SnapshotOf(manager[r.mgr],
                                                 balance[manager[r.mgr].owner],
                                                 balance[manager[r.mgr].account])

C24_EqualSnapshots ==
    \A t1 \in Tasks, t2 \in Tasks :
        LET r1 == task[t1]
            r2 == task[t2]
        IN
        ( /\ r1.method \in BalanceQueries /\ r2.method \in BalanceQueries
          /\ r1.mgr = r2.mgr
          /\ Returned(r1) /\ Returned(r2)
          /\ mined = {} ) =>
            Snapshot(r1) = Snapshot(r2)

(* C24: a balance query on an initialized manager makes at most two calls,
   both balance reads, and none of its steps changes the chain, the manager
   or another call; the snapshot it returns holds the owner's address with
   the balance read for it and the account's address with the balance read
   for it, each with its decimal rendering; as long as no transfer has been
   included, every snapshot holds the balances of the chain, so that two
   queries return equal snapshots. *)
C24_GetBalancesReadsOnly ==
    /\ [](C24_ReadsOnly /\ C24_EqualSnapshots)
    /\ [][ \A t \in Tasks :
             BalanceQueryStep(t) =>
                 /\ UNCHANGED <<balance, pending, mined, hashes, network>>
                 /\ UNCHANGED <<manager, initialized, options>>
                 /\ \A u \in Tasks \ {t} : task'[u] = task[u] ]_vars

C24_Witness ==
    \E t1 \in Tasks, t2 \in Tasks :
        LET r1 == task[t1]
            r2 == task[t2]
        IN
        /\ t1 # t2
        /\ r1.method = "getBalances" /\ r2.method = "getBalances"
        /\ Returned(r1) /\ Returned(r2)
        /\ mined = {} /\ pending # {}
        /\ Snapshot(r1) = Snapshot(r2)
        /\ Snapshot(r1).eoa.balance = FundedEoa
        /\ Snapshot(r1).smartAccount.balance = 0
        /\ Snapshot(r1).eoa.address # Snapshot(r1).smartAccount.address



Wrappers == {"sendSelfTransaction", "transferTo"}

(* the task sendUserOperation(calls) leaves behind when it is called on
   manager m, under the name of the wrapper that made the call *)
Delegated(m, wrapper, calls) ==
    [ manager_sendUserOperation(StartCall(m, "sendUserOperation"), manager[m], calls)
        EXCEPT !.method = wrapper ]

C25_WrapperCalls ==
    \A t \in Tasks :
        LET r == task[t]
            mg == manager[r.mgr]
        IN
        (r.method \in Wrappers /\ r.wasInitialized) =>
            /\ Len(r.calls) = 1
            /\ r.method = "sendSelfTransaction" => r.calls[1].to = mg.owner
            /\ r.target = mg.account /\ r.minBal = mg.minBalance
            /\ (\E i \in 1 .. Len(r.net) : r.net[i] \in BundlerCalls) => r.funding # "none"
            /\ ~IsAbsent(r.userOpRequest) =>
                  /\ Get(r.userOpRequest).account = mg.account
                  /\ Get(r.userOpRequest).calls = r.calls
            /\ Returned(r) =>
                  /\ LastCall(r) = "waitForUserOperationReceipt"
                  /\ Get(r.result).value = [hash |-> r.hash, receipt |-> Get(r.receipt)]

(* C25: a call of sendSelfTransaction(amount) leaves the call in the state
   in which sendUserOperation([{to: owner, value: amount}]) leaves it, amount
   being 0.001 ETH when none is given, and transferTo(to, amount) in the state
   of sendUserOperation([{to, value: amount}]): failed with the
   not-initialized error, or awaiting the first read of ensureFunding on the
   manager's account.  From there the wrapper's call carries that single call
   to the bundler, after the funding check has returned, and returns
   {hash, receipt}. *)
C25_WrappersDelegate ==
    /\ []C25_WrapperCalls
    /\ [][ \A t \in Tasks, m \in Managers :
             /\ \A amount \in AmountInputs :
                   sendSelfTransaction(t, m, amount) =>
                       task'[t] = Delegated(m, "sendSelfTransaction",
                                      << [ to |-> manager[m].owner,
                                           value |-> IF IsAbsent(amount)
                                                     THEN 1 * UnitsPerMilliEther
                                                     ELSE Get(amount) ] >>)
             /\ \A amount \in Amounts :
                   transferTo(t, m, Recipient, amount) =>
                       task'[t] = Delegated(m, "transferTo",
                                      << [to |-> Recipient, value |-> amount] >>)
             /\ (task[t].pc = "idle" /\ task'[t].method \in Wrappers
                    /\ task'[t].mgr = m) =>
                   \/ \E amount \in AmountInputs : sendSelfTransaction(t, m, amount)
                   \/ \E amount \in Amounts : transferTo(t, m, Recipient, amount) ]_vars

C25_Witness ==
    \E t \in Tasks :
        LET r == task[t] IN
        /\ r.method = "sendSelfTransaction"
        /\ Returned(r)
        /\ r.funding = "receipt"
        /\ r.calls = << [ to |-> manager[r.mgr].owner,
                          value |-> parseEther(DefaultSelfAmountMilli) ] >>
        /\ Made(r, "sendUserOperation")



FundingTransfers == {"fundSmartAccount", "FundingUtils.ensureFunding"}

(* C26: the options reaching estimateGasWithBump hold the caller's timeout,
   30000 ms when the caller gives none and 60000 ms for the transfers of
   fundSmartAccount; the schedule, live or fallback, carries that timeout, and
   the confirmation wait is made for the submitted hash with that timeout. *)
C26_WaitUsesTimeout ==
    /\ gasOptions(NoOptions).timeout = 30000
    /\ gasOptions([NoOptions EXCEPT !.timeout = Some(45000)]).timeout = 45000
    /\ \A t \in Tasks :
          LET r == task[t] IN
          /\ (r.method \in FundingTransfers /\ ~IsAbsent(r.opts)) =>
                Get(r.opts).timeout = 60000
          /\ (r.method = "sendTransactionWithBump") =>
                Get(r.opts).timeout \in {30000, 60000}
          /\ ~IsAbsent(r.gasParams) => Get(r.gasParams).timeout = Get(r.opts).timeout
          /\ ~IsAbsent(r.waited) =>
                /\ Get(r.waited).timeout = Get(r.opts).timeout
                /\ Get(r.waited).hash = r.hash

C26_Witness ==
    \E t \in Tasks :
        LET r == task[t] IN
        /\ r.method = "fundSmartAccount"
        /\ r.estimationFailed
        /\ ~IsAbsent(r.receipt)
        /\ Get(r.waited).timeout = 60000



(* the steps of a run up to and including its call of sendTransaction *)
EstimatePcs ==
    { "estimateGasWithBump_getGasPrice", "estimateGasWithBump_getBlock",
      "estimateGasWithBump_estimateGas", "sendTransactionWithBump_sendTransaction" }

(* the transfer a run has to submit: the request with the fallback limit and
   fees when its estimation failed, with the live ones otherwise *)
ExpectedTransfer(r) ==
    LET o == Get(r.opts)
        priority == 1 * UnitsPerGwei + (1 * UnitsPerGwei * o.priorityBumpPercent) \div 100
    IN
    IF r.estimationFailed
    THEN [ gas |-> 21000, maxFeePerGas |-> 10 * UnitsPerGwei,
           maxPriorityFeePerGas |-> 2 * UnitsPerGwei ] @@ Get(r.request)
    ELSE [ gas |-> network.gasLimit,
           maxFeePerGas |-> Get(network.baseFeePerGas) + priority
                                + o.gasBumpGwei * UnitsPerGwei,
           maxPriorityFeePerGas |-> priority ] @@ Get(r.request)

C27_SubmittedOnce ==
    \A t \in SendTasks :
        LET r == task[t] IN
        ~IsAbsent(r.request) =>
            /\ r.pc \in EstimatePcs => r.sent = <<>>
            /\ r.pc \notin EstimatePcs => r.sent = <<ExpectedTransfer(r)>>
            /\ r.estimationFailed => r.warnings = 1

(* C27: a run of sendTransactionWithBump with a non-null request, called
   directly or for a funding transfer, hands exactly one transfer to
   walletClient.sendTransaction, whether its estimation failed or not: none
   until it has estimated, one from then on, carrying the request with the
   fallback gas limit and fees when the estimation failed and with the live
   ones otherwise; and every run that has started estimating gets to that
   submission. *)
C27_EstimationNeverBlocks ==
    /\ []C27_SubmittedOnce
    /\ \A t \in SendTasks :
          (task[t].pc \in EstimatePcs) ~> (task[t].pc \notin EstimatePcs /\ Len(task[t].sent) = 1)

C27_Witness ==
    \E t \in SendTasks :
        LET r == task[t] IN
        /\ r.method = "fundSmartAccount"
        /\ r.estimationFailed
        /\ r.net = <<"getBalance", "getGasPrice", "getBlock", "estimateGas", "sendTransaction",
                     "waitForTransactionReceipt", "getBalance">>
        /\ Returned(r)
        /\ r.sent[1].gas = 21000 /\ r.sent[1].value = MaxMinBalance + Buffer



ScheduleFields == {"gas", "maxFeePerGas", "maxPriorityFeePerGas"}
EstimateCalls == {"getGasPrice", "getBlock", "estimateGas"}

(* the place of a network call in estimate, then submit, then wait *)
Stage(call) ==
    IF call \in EstimateCalls THEN 1
    ELSE IF call = "sendTransaction" THEN 2
    ELSE IF call = "waitForTransactionReceipt" THEN 3 ELSE 0

(* C28: a run of sendTransactionWithBump makes its calls in the order
   estimate, submit, wait, with one submission and one wait at most; what it
   submits holds every field of the caller's request (to, value, data)
   unchanged and, beside them, only gas, maxFeePerGas and
   maxPriorityFeePerGas, taken from the schedule; the hash it holds is the one
   of the pending or included transfer of exactly that recipient and value;
   the wait is made for that hash, the receipt is the one of that hash, and
   the run returns {hash, receipt} made of the two. *)
C28_SubmitsRequestWithSchedule ==
    \A t \in Tasks :
        LET r == task[t]
            request == Get(r.request)
            schedule == Get(r.gasParams)
        IN
        r.method = "sendTransactionWithBump" =>
            /\ \A i \in 1 .. Len(r.net), j \in 1 .. Len(r.net) :
                  i < j => /\ Stage(r.net[i]) >= 1
                           /\ Stage(r.net[i]) <= Stage(r.net[j])
                           /\ Stage(r.net[i]) = Stage(r.net[j]) => Stage(r.net[i]) = 1
            /\ Len(r.sent) <= 1
            /\ Len(r.sent) = 1 =>
                  /\ Made(r, "sendTransaction")
                  /\ DOMAIN r.sent[1] = DOMAIN request \cup ScheduleFields
                  /\ \A f \in DOMAIN request : r.sent[1][f] = request[f]
                  /\ r.sent[1].gas = schedule.gasLimit
                  /\ r.sent[1].maxFeePerGas = schedule.maxFeePerGas
                  /\ r.sent[1].maxPriorityFeePerGas = schedule.maxPriorityFeePerGas
            /\ r.hash # 0 =>
                  /\ Len(r.sent) = 1
                  /\ \/ r.hash \in mined
                     \/ \E p \in pending :
                           /\ p.hash = r.hash
                           /\ p.calls = << [to |-> request.to, value |-> request.value] >>
            /\ ~IsAbsent(r.waited) => (r.hash # 0 /\ Get(r.waited).hash = r.hash)
            /\ ~IsAbsent(r.receipt) =>
                  /\ Get(r.receipt).transactionHash = r.hash
                  /\ r.hash \in mined
            /\ Returned(r) =>
                  /\ LastCall(r) = "waitForTransactionReceipt"
                  /\ r.net[Len(r.net) - 1] = "sendTransaction"
                  /\ Get(r.result).value = [hash |-> r.hash, receipt |-> Get(r.receipt)]

C28_Witness ==
    \E t \in Tasks :
        LET r == task[t] IN
        /\ r.method = "sendTransactionWithBump"
        /\ Returned(r)
        /\ ~r.estimationFailed
        /\ "data" \in DOMAIN Get(r.request)
        /\ r.sent[1].data = "0x1234"
        /\ Get(r.result).value.hash = MaxHashes
        /\ balance[Recipient] = 1



(* the place of a network call in funding assurance, limit estimation,
   submission, receipt wait *)
OperationStage(call) ==
    IF call = "estimateUserOperationGas" THEN 2
    ELSE IF call = "sendUserOperation" THEN 3
    ELSE IF call = "waitForUserOperationReceipt" THEN 4 ELSE 1

(* C29: the network calls of a sendUserOperation call (or of a wrapper) come
   in the order funding assurance, limit estimation, submission, receipt
   wait, the last three once at most and only after the funding check has
   returned; the Solady manager submits only after its estimation, the
   Coinbase manager makes none; the handle the call holds after submitting is
   that of the pending or included operation of its account and calls; the
   call has returned only after the wait has answered for that handle, the
   operation being included, and has returned {hash, receipt} made of that
   handle and that receipt. *)
C29_ReturnsAfterReceipt ==
    \A t \in Tasks :
        LET r == task[t]
            mg == manager[r.mgr]
        IN
        r.method \in SubmitMethods =>
            /\ \A i \in 1 .. Len(r.net), j \in 1 .. Len(r.net) :
                  i < j => /\ OperationStage(r.net[i]) <= OperationStage(r.net[j])
                           /\ OperationStage(r.net[i]) = OperationStage(r.net[j]) =>
                                 OperationStage(r.net[i]) = 1
            /\ (\E i \in 1 .. Len(r.net) : OperationStage(r.net[i]) > 1) =>
                  r.funding # "none"
            /\ Made(r, "sendUserOperation") =>
                  Made(r, "estimateUserOperationGas") = (mg.implementation = "solady")
            /\ Made(r, "waitForUserOperationReceipt") =>
                  /\ Made(r, "sendUserOperation")
                  /\ r.hash # 0
                  /\ \/ r.hash \in mined
                     \/ \E p \in pending :
                           /\ p.hash = r.hash /\ p.kind = "userOperation"
                           /\ p.from = mg.account /\ p.calls = r.calls
            /\ Returned(r) =>
                  /\ LastCall(r) = "waitForUserOperationReceipt"
                  /\ r.net[Len(r.net) - 1] = "sendUserOperation"
                  /\ r.hash \in mined
                  /\ r.receipt = Some([userOpHash |-> r.hash])
                  /\ Get(r.result).value = [hash |-> r.hash, receipt |-> Get(r.receipt)]

C29_Witness ==
    \E t \in Tasks :
        LET r == task[t] IN
        /\ r.method = "sendUserOperation"
        /\ manager[r.mgr].implementation = "solady"
        /\ Returned(r)
        /\ r.funding = "receipt"
        /\ r.userOpEstimation = "failed"
        /\ Len(r.net) = 11
        /\ Get(r.result).value.hash = MaxHashes



ThrewInsufficient(r) ==
    /\ r.pc = "done" /\ ~IsAbsent(r.result)
    /\ Get(r.result).kind = "throw"
    /\ Get(r.result).error.message = InsufficientMessage

(* what the funding source is missing for the required transfer of
   (minBalance - targetBalance) + buffer *)
Shortfall(r) ==
    ((r.minBal - Get(r.smartAccountBalance)) + Buffer) - Get(r.eoaBalance)

(* C30 as stated: the amount named by the insufficient-funds error of
   ensureFunding is what the funding source is missing for the required
   transfer. *)
C30_Original ==
    \A t \in Tasks :
        LET r == task[t] IN
        ThrewInsufficient(r) => Get(r.result).error.needed = Shortfall(r)

(* C30 amended: the insufficient-funds error of ensureFunding names
   minBalance + buffer, the least balance the funding source has to hold,
   whatever the two balances read are; this is the amount the funding source
   is missing only when both balances read are 0. *)
C30_NamesNeededBalance ==
    \A t \in Tasks :
        LET r == task[t] IN
        ThrewInsufficient(r) =>
            /\ Get(r.result).error.needed = r.minBal + Buffer
            /\ Get(r.eoaBalance) < r.minBal + Buffer
            /\ Get(r.smartAccountBalance) < r.minBal
            /\ (Get(r.result).error.needed = Shortfall(r)) =
                  (Get(r.eoaBalance) = 0 /\ Get(r.smartAccountBalance) = 0)

C30_Witness ==
    \E t \in Tasks :
        LET r == task[t] IN
        /\ r.method = "FundingUtils.ensureFunding"
        /\ ThrewInsufficient(r)
        /\ r.minBal = MaxMinBalance
        /\ Get(r.eoaBalance) = 1 /\ Get(r.smartAccountBalance) = 0
        /\ Get(r.result).error.needed = MaxMinBalance + Buffer
        /\ Shortfall(r) = MaxMinBalance + Buffer - 1



(* C31: checkBalance makes one read and writes nothing: its steps leave the
   chain, the manager and every other call unchanged; for a valid address it
   returns the balance the node holds for that address at the read, unchanged
   (at least 0, and 0 for an address the node has never seen), or fails with
   the error of the failed read; for an invalid, empty or null address it
   fails with the error of the refused read; it never turns a failure into a
   value. *)
C31_CheckBalancePropagates ==
    [][ \A t \in Tasks :
          (task'[t] # task[t] /\ task'[t].method = "checkBalance") =>
              LET r == task'[t] IN
              /\ UNCHANGED <<balance, pending, mined, hashes, network>>
              /\ UNCHANGED <<manager, initialized, options>>
              /\ r.sent = <<>>
              /\ r.pc = "done" =>
                    /\ r.net = <<"getBalance">>
                    /\ Returned(r) =>
                          /\ r.target[1] \in {"eoa", "account"}
                          /\ Get(r.result).value >= 0
                          /\ Get(r.result).value =
                                IF r.target \in DOMAIN balance THEN balance[r.target] ELSE 0
                    /\ r.target \in InvalidAddresses => Threw(r, InvalidAddressError)
                    /\ ~Returned(r) =>
                          \/ Threw(r, InvalidAddressError)
                          \/ Threw(r, TransportError("getBalance")) ]_vars

C31_Witness ==
    \E t \in Tasks :
        LET r == task[t] IN
        /\ r.method = "checkBalance"
        /\ r.target = deriveAccount(manager[r.mgr])
        /\ Returned(r)
        /\ mined # {}
        /\ Get(r.result).value = MaxMinBalance + Buffer



(* the schedule of a call is the fallback one *)
UsedFallbackSchedule(r) ==
    /\ ~IsAbsent(r.gasParams)
    /\ Get(r.gasParams).gasLimit = 21000
    /\ Get(r.gasParams).maxFeePerGas = 10 * UnitsPerGwei
    /\ Get(r.gasParams).maxPriorityFeePerGas = 2 * UnitsPerGwei

(* the limits of a call's operation are the fallback ones *)
UsedFallbackLimits(r) ==
    /\ ~IsAbsent(r.userOpRequest)
    /\ Get(r.userOpRequest).limits =
          Some([ callGasLimit |-> 100000, verificationGasLimit |-> 100000,
                 preVerificationGas |-> 21000 ])

(* C32: the warnings a call has emitted are one for its fee estimation if
   that returned the fallback schedule, plus one for its limit estimation if
   that substituted the fallback limits, and no other: none for a live
   schedule, none for estimated limits, none on the Coinbase manager's
   submission, which estimates nothing. *)
C32_WarningIffFallback ==
    \A t \in Tasks :
        LET r == task[t] IN
        /\ r.warnings = (IF UsedFallbackSchedule(r) THEN 1 ELSE 0)
                            + (IF UsedFallbackLimits(r) THEN 1 ELSE 0)
        /\ UsedFallbackSchedule(r) = r.estimationFailed
        /\ UsedFallbackLimits(r) = (r.userOpEstimation = "failed")
        /\ (~IsAbsent(r.gasParams) /\ ~r.estimationFailed) =>
              /\ Made(r, "estimateGas")
              /\ Get(r.gasParams).gasLimit = network.gasLimit
        /\ r.userOpEstimation = "ok" =>
              Get(r.userOpRequest).limits = Some(network.userOpGas)

C32_Witness ==
    \E t \in Tasks :
        LET r == task[t] IN
        /\ r.method = "sendUserOperation"
        /\ Returned(r)
        /\ UsedFallbackSchedule(r) /\ UsedFallbackLimits(r)
        /\ r.warnings = 2



AllOk(log) == \A i \in 1 .. Len(log) : log[i] = "ok"

(* C33: main() awaits initialize, displayBalances, sendSelfTransaction and
   displayBalances in this order and goes on only after a success; it has
   exited with status 1 exactly when the call it awaited last has failed,
   after writing that failure's message to the error output and nothing
   else; it has exited with status 0 exactly when all four calls, the
   self-transaction and the final balance display included, have succeeded,
   having written nothing to the error output. *)
C33_DemoExitStatus ==
    \A t \in Tasks :
        LET r == task[t]
            mn == r.main
            n == Len(mn.log)
        IN
        mn.step >= 1 =>
            /\ n <= 4
            /\ r.method = MainCalls[mn.step]
            /\ r.pc # "exited" =>
                  /\ IsAbsent(mn.exit) /\ mn.stderr = <<>>
                  /\ AllOk(mn.log) /\ n = mn.step - 1
            /\ r.pc = "exited" =>
                  /\ n = mn.step
                  /\ AllOk(SubSeq(mn.log, 1, n - 1))
                  /\ mn.exit \in {Some(0), Some(1)}
                  /\ (mn.exit = Some(0)) = (mn.log = <<"ok", "ok", "ok", "ok">>)
                  /\ (mn.exit = Some(1)) = (mn.log[n] = "failed")
                  /\ mn.exit = Some(1) =>
                        /\ Get(r.result).kind = "throw"
                        /\ mn.stderr = <<Get(r.result).error.message>>
                  /\ mn.exit = Some(0) =>
                        /\ mn.stderr = <<>>
                        /\ Get(r.result).kind = "return"
                        /\ mined # {}
                        /\ initialized[r.mgr]

C33_Witness ==
    \E t \in Tasks :
        LET r == task[t] IN
        /\ r.pc = "exited"
        /\ r.main.exit = Some(1)
        /\ r.main.log = <<"ok", "ok", "failed">>
        /\ r.main.stderr = <<InsufficientMessage>>



(* C34: an ensureFunding call that has decided to fund (first target read
   below minBalance, funding source sufficient) reads the target a second
   time before anything else; when that second read is minBalance or more it
   has sent nothing and has returned null after its three reads; when it is
   below, the value of the transfer is (minBalance - second read) + buffer,
   whatever the first read was. *)
C34_SecondReadDecides ==
    \A t \in Tasks :
        LET r == task[t]
            second == Get(r.currentBalance)
        IN
        (r.method = "FundingUtils.ensureFunding" /\ ~IsAbsent(r.currentBalance)) =>
            /\ ~IsAbsent(r.smartAccountBalance)
            /\ Get(r.smartAccountBalance) < r.minBal
            /\ SubSeq(r.net, 1, 3) = <<"getBalance", "getBalance", "getBalance">>
            /\ second >= r.minBal =>
                  /\ r.sent = <<>> /\ r.hash = 0
                  /\ r.net = <<"getBalance", "getBalance", "getBalance">>
                  /\ ReturnedValue(r, Absent)
            /\ second < r.minBal =>
                  /\ r.fundingAmount = Some((r.minBal - second) + Buffer)
                  /\ Get(r.request) = [to |-> r.target, value |-> (r.minBal - second) + Buffer]
                  /\ Len(r.sent) >= 1 =>
                        /\ r.sent[1].to = r.target
                        /\ r.sent[1].value = (r.minBal - second) + Buffer

C34_Witness ==
    \E t \in Tasks :
        LET r == task[t] IN
        /\ r.method = "FundingUtils.ensureFunding"
        /\ ~IsAbsent(r.currentBalance)
        /\ Get(r.smartAccountBalance) < r.minBal
        /\ Get(r.currentBalance) >= r.minBal
        /\ ReturnedValue(r, Absent)
        /\ r.sent = <<>>



(* C35: the value of a funding transfer of an ensureFunding call is
   (minBalance - second target read) + buffer, which is at most
   minBalance + buffer, which is at most the funding-source balance the call
   read first; no transfer the call sends is worth more than that balance. *)
C35_TransferWithinSourceBalance ==
    \A t \in Tasks :
        LET r == task[t] IN
        (IsEnsureFunding(r) /\ ~IsAbsent(r.fundingAmount)) =>
            /\ ~IsAbsent(r.eoaBalance) /\ ~IsAbsent(r.currentBalance)
            /\ Get(r.currentBalance) >= 0
            /\ Get(r.fundingAmount) = (r.minBal - Get(r.currentBalance)) + Buffer
            /\ Get(r.fundingAmount) <= r.minBal + Buffer
            /\ r.minBal + Buffer <= Get(r.eoaBalance)
            /\ \A i \in DOMAIN r.sent :
                   ("to" \in DOMAIN r.sent[i] /\ r.sent[i].to = r.target) =>
                       /\ r.sent[i].value = Get(r.fundingAmount)
                       /\ r.sent[i].value <= Get(r.eoaBalance)

C35_Witness ==
    \E t \in Tasks :
        LET r == task[t] IN
        /\ r.method = "FundingUtils.ensureFunding"
        /\ Len(r.sent) = 1
        /\ r.sent[1].to = r.target
        /\ Get(r.currentBalance) = 0
        /\ r.sent[1].value = Get(r.eoaBalance)
        /\ r.pc = "done"



(* C36: in every state a manager that holds a bundler client holds an
   account, and a manager on which initialize() has not succeeded holds
   neither; a call made on such a manager has failed with the
   not-initialized error. An initialize() step that fails while deriving the
   account of such a manager leaves both fields null. *)
C36_BundlerImpliesAccountState ==
    /\ \A m \in Managers :
          /\ manager[m].bundlerClient # Absent => manager[m].account # Absent
          /\ initialized[m] <=> manager[m].account # Absent
          /\ ~initialized[m] => manager[m].bundlerClient = Absent
    /\ \A t \in Tasks :
          LET r == task[t] IN
          (r.method \in ManagerMethods \ {"initialize"} /\ ~r.wasInitialized) =>
              Threw(r, NotInitializedError)

C36_FailedInitializeStep ==
    \A t \in Tasks :
        (/\ task[t].pc = "initialize_toSmartAccount"
         /\ task'[t].pc = "done"
         /\ ThrewTransport(task'[t])
         /\ manager[task[t].mgr].account = Absent) =>
            /\ manager'[task[t].mgr].account = Absent
            /\ manager'[task[t].mgr].bundlerClient = Absent

C36_BundlerImpliesAccount ==
    []C36_BundlerImpliesAccountState /\ [][C36_FailedInitializeStep]_vars

C36_Witness ==
    \E t1, t2 \in Tasks :
        LET r1 == task[t1]
            r2 == task[t2]
        IN
        /\ r1.method = "initialize" /\ ThrewTransport(r1) /\ ~r1.wasInitialized
        /\ manager[r1.mgr].account = Absent
        /\ manager[r1.mgr].bundlerClient = Absent
        /\ r2.mgr = r1.mgr
        /\ r2.method = "sendUserOperation"
        /\ Threw(r2, NotInitializedError)



(* C37: when every awaited external call eventually returns or fails, every
   call of ensureFunding (on the manager or on FundingUtils) and of
   sendUserOperation that has started eventually completes, with a value or
   with an error. No call repeats an external call: each step of a call adds
   one external call to those it has made, and a call makes at most four
   balance reads, two fee estimates and one of each submission, confirmation
   wait, limit estimate and receipt wait. *)
LiveMethods == {"ensureFunding", "FundingUtils.ensureFunding", "sendUserOperation"}

C37_NoRetry ==
    \A t \in Tasks :
        LET r == task[t] IN
        r.method \in LiveMethods =>
            /\ Count(r, "getBalance") <= 4
            /\ \A call \in {"getGasPrice", "getBlock", "estimateGas"} : Count(r, call) <= 2
            /\ \A call \in {"sendTransaction", "waitForTransactionReceipt",
                            "estimateUserOperationGas", "sendUserOperation",
                            "waitForUserOperationReceipt"} : Count(r, call) <= 1
            /\ Len(r.sent) <= 2

C37_EachStepAdvances ==
    \A t \in Tasks :
        (task[t].method \in LiveMethods /\ task[t].pc \notin {"idle", "done"}
            /\ task'[t] # task[t]) =>
                /\ Len(task'[t].net) = Len(task[t].net) + 1
                /\ SubSeq(task'[t].net, 1, Len(task[t].net)) = task[t].net
                /\ task'[t].pc # task[t].pc

C37_CallsComplete ==
    /\ []C37_NoRetry
    /\ [][C37_EachStepAdvances]_vars
    /\ \A t \in LiveTasks :
          (task[t].method \in LiveMethods /\ task[t].pc \notin {"idle", "done"})
              ~> (task[t].pc = "done" /\ ~IsAbsent(task[t].result))

C37_Witness ==
    \E t \in Tasks :
        LET r == task[t] IN
        /\ r.method = "sendUserOperation"
        /\ Returned(r)
        /\ Count(r, "getBalance") = 4
        /\ Count(r, "waitForTransactionReceipt") = 1
        /\ Count(r, "waitForUserOperationReceipt") = 1



(* C38: two estimateGasWithBump calls that both returned a live estimate and
   were given the same priorityBumpPercent returned the same
   maxPriorityFeePerGas, whichever gas price and base fee each of them read
   and whichever request each of them was given. *)
LiveEstimate(r) ==
    r.method = "estimateGasWithBump" /\ Returned(r) /\ ~r.estimationFailed

C38_PriorityFeeOnlyFromPercent ==
    \A t1, t2 \in Tasks :
        LET r1 == task[t1]
            r2 == task[t2]
        IN
        (/\ LiveEstimate(r1) /\ LiveEstimate(r2)
         /\ Get(r1.opts).priorityBumpPercent = Get(r2.opts).priorityBumpPercent) =>
            /\ Get(r1.gasParams).maxPriorityFeePerGas = Get(r2.gasParams).maxPriorityFeePerGas
            /\ Get(r1.result).value.maxPriorityFeePerGas
                   = Get(r2.result).value.maxPriorityFeePerGas

C38_Witness ==
    \E t1, t2 \in Tasks :
        LET r1 == task[t1]
            r2 == task[t2]
        IN
        /\ LiveEstimate(r1) /\ LiveEstimate(r2)
        /\ Get(r1.opts).priorityBumpPercent = 50
        /\ Get(r2.opts).priorityBumpPercent = 50
        /\ r1.gasPrice # r2.gasPrice
        /\ Get(r1.gasParams).maxFeePerGas # Get(r2.gasParams).maxFeePerGas
        /\ r1.request # r2.request
        /\ Get(r1.result).value.maxPriorityFeePerGas = parseGwei(1) + parseGwei(1) \div 2
        /\ Get(r2.result).value.maxPriorityFeePerGas = parseGwei(1) + parseGwei(1) \div 2

====
